---- MODULE Spec2Model ----
(***************************************************************************)
(* Model of the kugutsu repository: the multi-engineer workflow            *)
(* (package multi_engineer) and the worktree manager of hello_cli.         *)
(*                                                                         *)
(* Strings are sequences of tokens.  Identifiers are spelled character by  *)
(* character (their length matters to the code); messages are spelled as   *)
(* sequences of phrases, cut so that every keyword the code searches for   *)
(* is a run of whole tokens.  The Japanese texts of the source are written *)
(* in romaji: "eraa" is the source's katakana word for "error",            *)
(* "SDK jikkou eraa" its "SDK execution error", "jikkou dekimasen          *)
(* deshita" its "could not be executed".                                   *)
(***************************************************************************)
EXTENDS Integers, Sequences, FiniteSets, TLC

\* ------------------------------------------------------------------------
\* Bounds
\* ------------------------------------------------------------------------
\* number of repository operations one behaviour of SpecGit performs
MaxCalls == 2

\* ------------------------------------------------------------------------
\* Strings
\* ------------------------------------------------------------------------
Rep(c, n) == [i \in 1..n |-> c]

\* s[:n]
Prefix(s, n) == IF Len(s) > n THEN SubSeq(s, 1, n) ELSE s

\* sub in s
Contains(sub, s) ==
    \E i \in 0..(Len(s) - Len(sub)) : SubSeq(s, i + 1, i + Len(sub)) = sub

IsSpace(t) == t \in {" ", "\n"}

RECURSIVE LStrip(_)
LStrip(s) == IF s # <<>> /\ IsSpace(Head(s)) THEN LStrip(Tail(s)) ELSE s

RECURSIVE RStrip(_)
RStrip(s) ==
    IF s # <<>> /\ IsSpace(s[Len(s)]) THEN RStrip(SubSeq(s, 1, Len(s) - 1)) ELSE s

\* s.strip()
Strip(s) == RStrip(LStrip(s))

\* str(uuid.uuid4())[:8]: eight characters
UuidLen == 8
Uuids == {Rep("a", UuidLen), Rep("b", UuidLen)}

\* task ids a caller may hand to the repository: a generated one, a short
\* one, and a nine-character one sharing its first eight with the generated one
TaskIds == {Rep("a", UuidLen), <<"c">>, Rep("a", UuidLen) \o <<"x">>}

Main == <<"main">>
Dev == <<"dev">>
BaseBranches == {Main, Dev}

\* f"feature/task-{task_id}"
FeatureBranch(task_id) == <<"feature/task-">> \o task_id

\* self.base_repo_path / "worktrees"
worktree_base_path == <<"worktrees/">>

None == <<"None">>

\* ------------------------------------------------------------------------
\* The git binary, as far as the program's calls observe it.  A state g is
\*   branches  : the branch names that exist
\*   worktrees : the registered worktrees, [path, branch]
\*   dirs      : the paths that exist on disk
\*   head      : the branch checked out in the main checkout
\*   ahead     : the branches carrying commits their base does not have
\*   merges    : <<into, from>> for every merge commit made
\*   chg       : <<path, kind>> uncommitted changes in a worktree,
\*               kind in modified (tracked, unstaged) / untracked / staged
\* Every command takes a flag `fault`: the command exits non-zero for a
\* reason outside the model (lock file, hook, permissions) and changes
\* nothing.
\* ------------------------------------------------------------------------
ChangeKinds == {"modified", "untracked", "staged"}

Cmd(c, a, rc) == [cmd |-> c, args |-> a, rc |-> rc]

\* command c is among cmds
Issued(cmds, c) == \E i \in DOMAIN cmds : cmds[i].cmd = c

CheckedOutInWorktree(g, b) == \E w \in g.worktrees : w.branch = b

Registered(g, p) == \E w \in g.worktrees : w.path = p

BranchAt(g, p) == (CHOOSE w \in g.worktrees : w.path = p).branch

\* git worktree add -b <branch> <path> <base>
GitWorktreeAdd(g, branch, path, base, fault) ==
    IF ~fault /\ branch \notin g.branches /\ base \in g.branches
       /\ path \notin g.dirs /\ ~Registered(g, path)
    THEN [g |-> [g EXCEPT !.branches = @ \cup {branch},
                          !.worktrees = @ \cup {[path |-> path, branch |-> branch]},
                          !.dirs = @ \cup {path}],
          rc |-> 0]
    ELSE [g |-> g, rc |-> 1]

\* git worktree remove <path> --force
GitWorktreeRemove(g, path, fault) ==
    IF ~fault /\ Registered(g, path)
    THEN [g |-> [g EXCEPT !.worktrees = {w \in @ : w.path # path},
                          !.dirs = @ \ {path},
                          !.chg = {c \in @ : c[1] # path}],
          rc |-> 0]
    ELSE [g |-> g, rc |-> 1]

\* git checkout <name>
GitCheckout(g, name, fault) ==
    IF ~fault /\ name \in g.branches /\ ~CheckedOutInWorktree(g, name)
    THEN [g |-> [g EXCEPT !.head = name], rc |-> 0]
    ELSE [g |-> g, rc |-> 1]

\* git merge <branch> --no-ff -m ...
GitMerge(g, branch, fault) ==
    IF ~fault /\ branch \in g.branches
    THEN [g |-> [g EXCEPT !.merges =
                     IF branch \in g.ahead THEN @ \cup {<<g.head, branch>>} ELSE @],
          rc |-> 0]
    ELSE [g |-> g, rc |-> 1]

\* git branch -d <branch>
GitBranchDelete(g, branch, fault) ==
    IF ~fault /\ branch \in g.branches /\ branch # g.head
       /\ ~CheckedOutInWorktree(g, branch)
       /\ (branch \notin g.ahead \/ <<g.head, branch>> \in g.merges)
    THEN [g |-> [g EXCEPT !.branches = @ \ {branch}], rc |-> 0]
    ELSE [g |-> g, rc |-> 1]

\* git add -A, run in the worktree at path
GitAddAll(g, path, fault) ==
    IF ~fault
    THEN [g |-> [g EXCEPT !.chg = {c \in @ : c[1] # path}
                                  \cup {<<path, "staged">> : c \in {d \in @ : d[1] = path}}],
          rc |-> 0]
    ELSE [g |-> g, rc |-> 1]

\* git commit -m <message>, run in the worktree at path
GitCommit(g, path, fault) ==
    IF ~fault /\ <<path, "staged">> \in g.chg /\ Registered(g, path)
    THEN [g |-> [g EXCEPT !.chg = @ \ {<<path, "staged">>},
                          !.ahead = @ \cup {BranchAt(g, path)}],
          rc |-> 0]
    ELSE [g |-> g, rc |-> 1]

\* stdout of `git diff --stat` run in the worktree at path: the unstaged
\* changes of tracked files
GitDiffStat(g, path) ==
    IF <<path, "modified">> \in g.chg THEN <<"1 file changed">> ELSE <<>>

\* stdout of `git diff main...<branch> --stat`
GitDiffRange(g, branch) ==
    IF branch \in g.ahead THEN <<"1 file changed">> ELSE <<>>

\* ------------------------------------------------------------------------
\* multi_engineer/infrastructure/git_repository.py
\* An operation maps a git state to
\*   [g, cmds, ret, raised]: the new state, the git commands it ran with
\*   their exit codes, its return value, whether it raised.
\* ------------------------------------------------------------------------
ShortIdLen == 8

GitRepository_worktree_path(task_id) ==
    worktree_base_path \o <<"t-">> \o Prefix(task_id, ShortIdLen)

\* remove_worktree without the test that the path exists
GitRepository_remove_worktree_always(g, task_id, fault) ==
    LET worktree_path == GitRepository_worktree_path(task_id)
        r == GitWorktreeRemove(g, worktree_path, fault)
    IN  [g |-> r.g,
         cmds |-> <<Cmd("worktree remove", <<worktree_path, <<"--force">>>>, r.rc)>>,
         ret |-> None, raised |-> FALSE]

GitRepository_remove_worktree(g, task_id, fault) ==
    LET worktree_path == GitRepository_worktree_path(task_id)
        r == GitWorktreeRemove(g, worktree_path, fault)
    IN  IF worktree_path \in g.dirs
        THEN [g |-> r.g,
              cmds |-> <<Cmd("worktree remove", <<worktree_path, <<"--force">>>>, r.rc)>>,
              ret |-> None, raised |-> FALSE]
        ELSE [g |-> g, cmds |-> <<>>, ret |-> None, raised |-> FALSE]

\* create_worktree that tries `git worktree add` a second time when the
\* first attempt failed
GitRepository_create_worktree_retry(g, task_id, branch_name, base_branch, f) ==
    LET worktree_path == GitRepository_worktree_path(task_id)
        g0 == [g EXCEPT !.dirs = @ \cup {worktree_base_path}]
        r1 == IF worktree_path \in g0.dirs
              THEN GitRepository_remove_worktree(g0, task_id, f.rm)
              ELSE [g |-> g0, cmds |-> <<>>, ret |-> None, raised |-> FALSE]
        r2 == GitWorktreeAdd(r1.g, branch_name, worktree_path, base_branch, f.add)
        r3 == GitWorktreeAdd(r2.g, branch_name, worktree_path, base_branch, FALSE)
        c2 == Cmd("worktree add", <<branch_name, worktree_path, base_branch>>, r2.rc)
        c3 == Cmd("worktree add", <<branch_name, worktree_path, base_branch>>, r3.rc)
    IN  IF r2.rc = 0
        THEN [g |-> r2.g, cmds |-> r1.cmds \o <<c2>>, ret |-> worktree_path,
              raised |-> FALSE]
        ELSE [g |-> r3.g, cmds |-> r1.cmds \o <<c2, c3>>,
              ret |-> IF r3.rc # 0 THEN None ELSE worktree_path,
              raised |-> r3.rc # 0]

\* create_worktree that does not look at the exit status of git worktree add
GitRepository_create_worktree_unchecked(g, task_id, branch_name, base_branch, f) ==
    LET worktree_path == GitRepository_worktree_path(task_id)
        g0 == [g EXCEPT !.dirs = @ \cup {worktree_base_path}]
        r1 == IF worktree_path \in g0.dirs
              THEN GitRepository_remove_worktree(g0, task_id, f.rm)
              ELSE [g |-> g0, cmds |-> <<>>, ret |-> None, raised |-> FALSE]
        r2 == GitWorktreeAdd(r1.g, branch_name, worktree_path, base_branch, f.add)
    IN  [g |-> r2.g,
         cmds |-> r1.cmds \o
                  <<Cmd("worktree add", <<branch_name, worktree_path, base_branch>>, r2.rc)>>,
         ret |-> worktree_path,
         raised |-> FALSE]

\* f.rm, f.add: faults of the two git commands
GitRepository_create_worktree(g, task_id, branch_name, base_branch, f) ==
    LET worktree_path == GitRepository_worktree_path(task_id)
        g0 == [g EXCEPT !.dirs = @ \cup {worktree_base_path}]
        r1 == IF worktree_path \in g0.dirs
              THEN GitRepository_remove_worktree(g0, task_id, f.rm)
              ELSE [g |-> g0, cmds |-> <<>>, ret |-> None, raised |-> FALSE]
        r2 == GitWorktreeAdd(r1.g, branch_name, worktree_path, base_branch, f.add)
    IN  [g |-> r2.g,
         cmds |-> r1.cmds \o
                  <<Cmd("worktree add", <<branch_name, worktree_path, base_branch>>, r2.rc)>>,
         ret |-> IF r2.rc # 0 THEN None ELSE worktree_path,
         raised |-> r2.rc # 0]

\* commit_changes without check=True
GitRepository_commit_changes_unchecked(g, worktree_path, f) ==
    LET r1 == GitAddAll(g, worktree_path, f.add)
        r2 == GitCommit(r1.g, worktree_path, f.commit)
    IN  [g |-> r2.g,
         cmds |-> <<Cmd("add", <<worktree_path>>, r1.rc),
                    Cmd("commit", <<worktree_path>>, r2.rc)>>,
         ret |-> TRUE, raised |-> FALSE]

\* f.add, f.commit: faults of the two git commands
GitRepository_commit_changes(g, worktree_path, f) ==
    LET r1 == GitAddAll(g, worktree_path, f.add)
        r2 == GitCommit(r1.g, worktree_path, f.commit)
    IN  IF r1.rc # 0
        THEN [g |-> r1.g, cmds |-> <<Cmd("add", <<worktree_path>>, r1.rc)>>,
              ret |-> FALSE, raised |-> FALSE]
        ELSE [g |-> r2.g,
              cmds |-> <<Cmd("add", <<worktree_path>>, r1.rc),
                         Cmd("commit", <<worktree_path>>, r2.rc)>>,
              ret |-> (r2.rc = 0), raised |-> FALSE]

\* merge_branch without the checkout: the merge lands on the current branch
GitRepository_merge_branch_no_checkout(g, branch_name, f) ==
    LET r2 == GitMerge(g, branch_name, f.merge)
        r3 == GitBranchDelete(r2.g, branch_name, f.del)
        c2 == Cmd("merge", <<branch_name>>, r2.rc)
        c3 == Cmd("branch -d", <<branch_name>>, r3.rc)
    IN  IF r2.rc # 0
        THEN [g |-> r2.g, cmds |-> <<c2>>, ret |-> FALSE, raised |-> FALSE]
        ELSE [g |-> r3.g, cmds |-> <<c2, c3>>, ret |-> TRUE, raised |-> FALSE]

\* merge_branch without the test of the merge's return code
GitRepository_merge_branch_unchecked_merge(g, branch_name, f) ==
    LET r1 == GitCheckout(g, Main, f.checkout)
        r2 == GitMerge(r1.g, branch_name, f.merge)
        r3 == GitBranchDelete(r2.g, branch_name, f.del)
        c1 == Cmd("checkout", <<Main>>, r1.rc)
        c2 == Cmd("merge", <<branch_name>>, r2.rc)
        c3 == Cmd("branch -d", <<branch_name>>, r3.rc)
    IN  IF r1.rc # 0
        THEN [g |-> r1.g, cmds |-> <<c1>>, ret |-> FALSE, raised |-> FALSE]
        ELSE [g |-> r3.g, cmds |-> <<c1, c2, c3>>, ret |-> TRUE, raised |-> FALSE]

\* f.checkout, f.merge, f.del: faults of the three git commands
GitRepository_merge_branch(g, branch_name, f) ==
    LET r1 == GitCheckout(g, Main, f.checkout)
        r2 == GitMerge(r1.g, branch_name, f.merge)
        r3 == GitBranchDelete(r2.g, branch_name, f.del)
        c1 == Cmd("checkout", <<Main>>, r1.rc)
        c2 == Cmd("merge", <<branch_name>>, r2.rc)
        c3 == Cmd("branch -d", <<branch_name>>, r3.rc)
    IN  IF r1.rc # 0
        THEN [g |-> r1.g, cmds |-> <<c1>>, ret |-> FALSE, raised |-> FALSE]
        ELSE IF r2.rc # 0
        THEN [g |-> r2.g, cmds |-> <<c1, c2>>, ret |-> FALSE, raised |-> FALSE]
        ELSE [g |-> r3.g, cmds |-> <<c1, c2, c3>>, ret |-> TRUE, raised |-> FALSE]

GitRepository_get_diff_stats(g, branch_name) ==
    [g |-> g, cmds |-> <<Cmd("diff", <<Main, branch_name>>, 0)>>,
     ret |-> GitDiffRange(g, branch_name), raised |-> FALSE]

\* ------------------------------------------------------------------------
\* hello_cli/main.py, class GitWorktreeManager
\* ------------------------------------------------------------------------
GitWorktreeManager_worktree_path(task_id) ==
    worktree_base_path \o <<"task-">> \o task_id

GitWorktreeManager_remove_worktree(g, task_id, fault) ==
    LET worktree_path == GitWorktreeManager_worktree_path(task_id)
        r == GitWorktreeRemove(g, worktree_path, fault)
    IN  IF worktree_path \in g.dirs
        THEN [g |-> r.g,
              cmds |-> <<Cmd("worktree remove", <<worktree_path, <<"--force">>>>, r.rc)>>,
              ret |-> None, raised |-> FALSE]
        ELSE [g |-> g, cmds |-> <<>>, ret |-> None, raised |-> FALSE]

GitWorktreeManager_create_worktree(g, task_id, base_branch, f) ==
    LET branch_name == FeatureBranch(task_id)
        worktree_path == GitWorktreeManager_worktree_path(task_id)
        g0 == [g EXCEPT !.dirs = @ \cup {worktree_base_path}]
        r1 == IF worktree_path \in g0.dirs
              THEN GitWorktreeManager_remove_worktree(g0, task_id, f.rm)
              ELSE [g |-> g0, cmds |-> <<>>, ret |-> None, raised |-> FALSE]
        r2 == GitWorktreeAdd(r1.g, branch_name, worktree_path, base_branch, f.add)
    IN  [g |-> r2.g,
         cmds |-> r1.cmds \o
                  <<Cmd("worktree add", <<branch_name, worktree_path, base_branch>>, r2.rc)>>,
         ret |-> IF r2.rc # 0 THEN None ELSE worktree_path,
         raised |-> r2.rc # 0]

\* f.checkout, f.merge, f.rm, f.del: faults of the git commands
GitWorktreeManager_merge_and_cleanup(g, task_id, branch_name, f) ==
    LET c0 == Cmd("diff", <<Main, branch_name>>, 0)
        r1 == GitCheckout(g, Main, f.checkout)
        r2 == GitMerge(r1.g, branch_name, f.merge)
        r3 == GitWorktreeManager_remove_worktree(r2.g, task_id, f.rm)
        r4 == GitBranchDelete(r3.g, branch_name, f.del)
        c1 == Cmd("checkout", <<Main>>, r1.rc)
        c2 == Cmd("merge", <<branch_name>>, r2.rc)
        c4 == Cmd("branch -d", <<branch_name>>, r4.rc)
    IN  IF r1.rc # 0
        THEN [g |-> r1.g, cmds |-> <<c0, c1>>, ret |-> FALSE, raised |-> FALSE]
        ELSE IF r2.rc # 0
        THEN [g |-> r2.g, cmds |-> <<c0, c1, c2>>, ret |-> FALSE, raised |-> FALSE]
        ELSE [g |-> r4.g, cmds |-> <<c0, c1, c2>> \o r3.cmds \o <<c4>>,
              ret |-> TRUE, raised |-> FALSE]

\* ------------------------------------------------------------------------
\* State
\* ------------------------------------------------------------------------
VARIABLES
    git,        \* the repository on disk
    lastCall,   \* the last repository operation: name, arguments, outcome
    calls,      \* SpecGit: number of operations performed
    pc,         \* position of the multi-engineer command
    opts,       \* its command line: prompt, base_branch, auto_merge
    wf,         \* locals of execute_task_workflow
    task,       \* the DevelopmentTask
    result,     \* the ExecutionResult the workflow returned
    ex,         \* locals of the running ClaudeRepository.execute_task
    child,      \* the spawned process
    queue,      \* result_queue
    sessions,   \* the session files under session_dir
    gitLog,     \* every git command the command ran, in order
    out,        \* the panels the command printed, in order
    exitCode    \* exit code of the command

gitVars == <<git, lastCall, calls>>
cmdVars == <<pc, opts, wf, task, result, ex, child, queue, sessions, gitLog, out,
            exitCode>>
vars == <<git, lastCall, calls, pc, opts, wf, task, result, ex, child, queue,
          sessions, gitLog, out, exitCode>>

NoCall == [op |-> "none", cls |-> "none", task_id |-> None, arg |-> None,
           pre |-> {}, faulted |-> FALSE, cmds |-> <<>>, ret |-> None,
           raised |-> FALSE]

\* a repository with the two base branches checked out on head, and the
\* directories in extra lying around unregistered
CleanRepo(head, extra) ==
    [branches |-> BaseBranches, worktrees |-> {}, dirs |-> extra, head |-> head,
     ahead |-> {}, merges |-> {}, chg |-> {}]

\* ------------------------------------------------------------------------
\* multi_engineer/infrastructure/claude_repository.py
\* ------------------------------------------------------------------------
CliOkDefault == <<"Claude Code CLI ga seijou ni jikkou saremashita">>
CliErrDefault == <<"Claude Code CLI jikkou ", "eraa", " (shuuryou koodo)">>
ChildTimeoutText == <<"Claude Code CLI jikkou ga taimuauto shimashita">>
CliNotFoundText == <<"Claude Code CLI ga mitsukarimasen">>

\* what the external CLI prints
Stdouts == {<<>>, <<"edit main.py", "\n">>, <<"fixed the ", "eraa", " message">>}
Stderrs == {<<>>, <<"rate limited">>}

\* str(e) of the OSError os.unlink raises
UnlinkErrorText == <<"[Errno 13] Permission denied: prompt file">>

\* how the child's subprocess.run(cmd, timeout=60) ends, and whether the
\* removal of the prompt file in the finally clause succeeds (unlink "ok")
\* or raises OSError (unlink "fails")
CliOutcomes ==
    {[kind |-> "exit0", text |-> t, unlink |-> "ok"] : t \in Stdouts} \cup
    {[kind |-> "nonzero", text |-> t, unlink |-> "ok"] : t \in Stderrs} \cup
    {[kind |-> "timeout", text |-> <<>>, unlink |-> "ok"],
     [kind |-> "notfound", text |-> <<>>, unlink |-> "ok"],
     [kind |-> "oserror", text |-> <<"Permission denied">>, unlink |-> "ok"],
     [kind |-> "exit0", text |-> <<>>, unlink |-> "fails"],
     [kind |-> "timeout", text |-> <<>>, unlink |-> "fails"]}

\* the tuples run_claude_in_separate_process puts on result_queue, in order.
\* An exception of the finally clause replaces the one in flight and
\* reaches `except Exception`, also after a tuple was put
run_claude_in_separate_process(o) ==
    LET cleanup == [status |-> "error", text |-> UnlinkErrorText]
    IN  CASE o.kind = "exit0" ->
                 <<[status |-> "success",
                    text |-> IF Strip(o.text) # <<>> THEN Strip(o.text)
                             ELSE CliOkDefault]>>
                 \o (IF o.unlink = "fails" THEN <<cleanup>> ELSE <<>>)
          [] o.kind = "nonzero" ->
                 <<[status |-> "error",
                    text |-> IF Strip(o.text) # <<>> THEN Strip(o.text)
                             ELSE CliErrDefault]>>
                 \o (IF o.unlink = "fails" THEN <<cleanup>> ELSE <<>>)
          [] o.unlink = "fails" -> <<cleanup>>
          [] o.kind = "timeout" -> <<[status |-> "error", text |-> ChildTimeoutText]>>
          [] o.kind = "notfound" -> <<[status |-> "error", text |-> CliNotFoundText]>>
          [] OTHER -> <<[status |-> "error", text |-> o.text]>>

SdkErrorPrefix == <<"SDK jikkou ", "eraa", ": ">>
QueueTimeoutText == <<"Claude ", "SDK jikkou ", "ga taimuauto shimashita">>
ProcessErrorPrefix == <<"purosesu jikkou ", "eraa", ": ">>
TaskDoneText == <<"tasuku ga kanryou shimashita">>
NoResponseText == <<"Claude Code SDK kara outou ga arimasen deshita">>

\* nothing was read from the queue
NoTuple == [status |-> "none", text |-> <<>>]

\* final_result after the queue read: got is the tuple read, or NoTuple
\* after queue.Empty
execute_task_final_result(got) ==
    IF got = NoTuple THEN QueueTimeoutText
    ELSE IF got.status = "success" THEN got.text
    ELSE SdkErrorPrefix \o got.text

execute_task_message_received(got) == got # NoTuple /\ got.status = "success"

\* everything the generator yields when iterated to exhaustion
execute_task_yields(final_result, message_received) ==
    <<IF final_result # <<>> THEN final_result ELSE TaskDoneText>>
    \o (IF ~message_received THEN <<NoResponseText>> ELSE <<>>)

NoExec == [who |-> "none", phase |-> "idle", cwd |-> None, cli |-> "none",
           got |-> NoTuple, timed_out |-> FALSE, final_result |-> <<>>,
           message_received |-> FALSE, yields |-> <<>>]

\* execute_task up to process.start(): spawn is whether ctx.Process/start
\* succeeded
execute_task_start(who, cwd, spawn) ==
    IF spawn
    THEN /\ ex' = [NoExec EXCEPT !.who = who, !.phase = "get", !.cwd = cwd]
         /\ child' = "running"
         /\ queue' = <<>>
    ELSE LET fr == ProcessErrorPrefix \o <<"spawn failed">>
         IN  /\ ex' = [NoExec EXCEPT !.who = who, !.phase = "yielded", !.cwd = cwd,
                                     !.final_result = fr,
                                     !.yields = execute_task_yields(fr, FALSE)]
             /\ child' = "none"
             /\ queue' = <<>>

\* ------------------------------------------------------------------------
\* multi_engineer/domain/entities.py
\* ------------------------------------------------------------------------
TaskStatus == {"pending", "in_progress", "completed", "failed", "merged"}

NoTask == [id |-> None, prompt |-> None, branch_name |-> None,
           worktree_path |-> None, status |-> "none", base_branch |-> None]

\* DevelopmentTask.create, task_id the fresh uuid
DevelopmentTask_create(task_id, prompt, base_branch) ==
    [id |-> task_id, prompt |-> prompt, branch_name |-> FeatureBranch(task_id),
     worktree_path |-> None, status |-> "pending", base_branch |-> base_branch]

NoResult == [task_id |-> None, success |-> FALSE, message |-> None,
             has_task |-> FALSE, returned |-> FALSE]

ExecutionResult(task_id, success, message, has_task) ==
    [task_id |-> task_id, success |-> success, message |-> message,
     has_task |-> has_task, returned |-> TRUE]

\* ------------------------------------------------------------------------
\* multi_engineer/application/services.py
\* ------------------------------------------------------------------------
UserPrompts == {<<"add a feature">>, <<"change ", "Hey", " to ", "Hello">>}

FixedFallback == <<"hello_cli/main.py no 217 gyoume no ", "Hey", " wo ", "Hello", " ni henkou shite kudasai">>
GenericFallback == <<"tsugi no youkyuu wo jissou shite kudasai: ">>

\* engineer_instructions computed from the product owner's message
po_instructions(message, user_prompt) ==
    IF Contains(<<"SDK jikkou ", "eraa">>, message) \/ Contains(<<"TaskGroup">>, message)
    THEN IF Contains(<<"Hello">>, user_prompt) /\ Contains(<<"Hey">>, user_prompt)
         THEN FixedFallback
         ELSE GenericFallback \o user_prompt
    ELSE Strip(message)

\* the error check on the engineer's message
engineer_message_is_error(message) ==
    Contains(<<"eraa">>, message) \/ Contains(<<"jikkou dekimasen deshita">>, message)

Truthy(s) == s # None /\ s # <<>>

NoOpts == [prompt |-> None, base_branch |-> None, auto_merge |-> FALSE,
           no_worktree |-> FALSE]

NoWf == [session_id |-> None, base_branch |-> None, engineer_instructions |-> None,
         engineer_result |-> <<>>, engineer_success |-> FALSE,
         engineer_error |-> None, commit |-> "none", merge |-> "none"]

IdleCommand ==
    /\ pc = "idle"
    /\ opts = NoOpts
    /\ wf = NoWf
    /\ task = NoTask
    /\ result = NoResult
    /\ ex = NoExec
    /\ child = "none"
    /\ queue = <<>>
    /\ sessions = {}
    /\ gitLog = <<>>
    /\ out = <<>>
    /\ exitCode = None

\* ------------------------------------------------------------------------
\* SpecGit: the repository classes driven by an arbitrary caller
\* ------------------------------------------------------------------------
Classes == {"GitRepository", "GitWorktreeManager"}

PathOf(cls, task_id) ==
    IF cls = "GitRepository" THEN GitRepository_worktree_path(task_id)
    ELSE GitWorktreeManager_worktree_path(task_id)

StrayDirs == {{}} \cup {{PathOf(c, Rep("a", UuidLen))} : c \in Classes}

InitGit ==
    /\ \E h \in BaseBranches, extra \in StrayDirs : git = CleanRepo(h, extra)
    /\ lastCall = NoCall
    /\ calls = 0
    /\ IdleCommand

Record(op, cls, task_id, arg, faulted, r) ==
    /\ git' = r.g
    /\ lastCall' = [op |-> op, cls |-> cls, task_id |-> task_id, arg |-> arg,
                    pre |-> git.dirs, faulted |-> faulted, cmds |-> r.cmds,
                    ret |-> r.ret, raised |-> r.raised]
    /\ calls' = calls + 1
    /\ UNCHANGED cmdVars

CallCreateWorktree ==
    /\ calls < MaxCalls
    /\ \E cls \in Classes, id \in TaskIds, base \in BaseBranches,
          f \in [rm : BOOLEAN, add : BOOLEAN] :
          LET r == IF cls = "GitRepository"
                   THEN GitRepository_create_worktree(git, id, FeatureBranch(id), base, f)
                   ELSE GitWorktreeManager_create_worktree(git, id, base, f)
          IN  /\ f.rm => Issued(r.cmds, "worktree remove")
              /\ Record("create_worktree", cls, id, base, f.rm \/ f.add, r)

CallRemoveWorktree ==
    /\ calls < MaxCalls
    /\ \E cls \in Classes, id \in TaskIds, fault \in BOOLEAN :
          LET r == IF cls = "GitRepository"
                   THEN GitRepository_remove_worktree(git, id, fault)
                   ELSE GitWorktreeManager_remove_worktree(git, id, fault)
          IN  /\ fault => Issued(r.cmds, "worktree remove")
              /\ Record("remove_worktree", cls, id, None, fault, r)

\* the agent, working in a worktree, leaves changes behind
AgentEdits ==
    /\ calls < MaxCalls
    /\ \E w \in git.worktrees, k \in ChangeKinds :
          /\ <<w.path, k>> \notin git.chg
          /\ git' = [git EXCEPT !.chg = @ \cup {<<w.path, k>>}]
    /\ UNCHANGED <<lastCall, calls>>
    /\ UNCHANGED cmdVars

CallCommitChanges ==
    /\ calls < MaxCalls
    /\ \E w \in git.worktrees, f \in [add : BOOLEAN, commit : BOOLEAN] :
          LET r == GitRepository_commit_changes(git, w.path, f)
          IN  /\ f.commit => Issued(r.cmds, "commit")
              /\ Record("commit_changes", "GitRepository", None, w.path,
                        f.add \/ f.commit, r)

CallMerge ==
    /\ calls < MaxCalls
    /\ \E cls \in Classes, id \in TaskIds,
          f \in [checkout : BOOLEAN, merge : BOOLEAN, rm : BOOLEAN, del : BOOLEAN] :
          LET r == IF cls = "GitRepository"
                   THEN GitRepository_merge_branch(git, FeatureBranch(id), f)
                   ELSE GitWorktreeManager_merge_and_cleanup(git, id, FeatureBranch(id), f)
          IN  /\ f.merge => Issued(r.cmds, "merge")
              /\ f.rm => Issued(r.cmds, "worktree remove")
              /\ f.del => Issued(r.cmds, "branch -d")
              /\ Record("merge", cls, id, FeatureBranch(id),
                        f.checkout \/ f.merge \/ f.rm \/ f.del, r)

NextGit ==
    \/ CallCreateWorktree
    \/ CallRemoveWorktree
    \/ AgentEdits
    \/ CallCommitChanges
    \/ CallMerge

SpecGit == InitGit /\ [][NextGit]_vars

\* ------------------------------------------------------------------------
\* Spec: one run of the multi-engineer command (presentation/cli.py main)
\* ------------------------------------------------------------------------
\* a repository in which an earlier run left its worktree behind
LeftoverRepo(head) ==
    [CleanRepo(head, {worktree_base_path,
                      GitRepository_worktree_path(Rep("a", UuidLen))})
        EXCEPT !.branches = @ \cup {FeatureBranch(Rep("b", UuidLen))},
               !.worktrees = {[path |-> GitRepository_worktree_path(Rep("a", UuidLen)),
                               branch |-> FeatureBranch(Rep("b", UuidLen))]}]

Init ==
    /\ git \in {CleanRepo(h, {}) : h \in BaseBranches} \cup {LeftoverRepo(Main)}
    /\ lastCall = NoCall
    /\ calls = 0
    /\ pc = "main"
    /\ opts \in [prompt : UserPrompts, base_branch : {None, Dev},
                 auto_merge : BOOLEAN, no_worktree : BOOLEAN]
    /\ wf = NoWf
    /\ task = NoTask
    /\ result = NoResult
    /\ ex = NoExec
    /\ child = "none"
    /\ queue = <<>>
    /\ sessions = {}
    /\ gitLog = <<>>
    /\ out = <<>>
    /\ exitCode = None

\* a repository operation of the running command
Ran(op, task_id, arg, faulted, r) ==
    /\ git' = r.g
    /\ gitLog' = gitLog \o r.cmds
    /\ lastCall' = [op |-> op, cls |-> "GitRepository", task_id |-> task_id,
                    arg |-> arg, pre |-> git.dirs, faulted |-> faulted,
                    cmds |-> r.cmds, ret |-> r.ret, raised |-> r.raised]

\* the name of the file of a session/agent pair under session_dir
session_file(session_id, agent_type) ==
    session_id \o <<"_">> \o agent_type \o <<".json">>

\* save_session_state: the file named after session_id and agent_type is
\* written anew; ss is the set of files under session_dir
save_session_state(ss, session_id, agent_type, res) ==
    LET f == session_file(session_id, agent_type)
    IN  {s \in ss : s.file # f}
        \cup {[file |-> f, session_id |-> session_id, agent_type |-> agent_type,
               result |-> res, status |-> "completed"]}

\* the None that load_session_state returns
NoSessionData == [status |-> "None"]

\* load_session_state: the content of the file named after session_id and
\* agent_type, None when there is no such file
load_session_state(ss, session_id, agent_type) ==
    LET f == session_file(session_id, agent_type)
    IN  IF \E s \in ss : s.file = f
        THEN LET s == CHOOSE t \in ss : t.file = f
             IN  [session_id |-> s.session_id, agent_type |-> s.agent_type,
                  result |-> s.result, status |-> s.status]
        ELSE NoSessionData

\* cli.py 65-98: the base branch is the option, or the current branch, or
\* main when `git branch --show-current` fails
MainStart ==
    /\ pc = "main"
    /\ \E fault \in BOOLEAN :
          IF opts.base_branch = None
          THEN /\ wf' = [wf EXCEPT !.base_branch = IF fault THEN Main ELSE git.head]
               /\ gitLog' = Append(gitLog, Cmd("branch --show-current", <<>>,
                                               IF fault THEN 1 ELSE 0))
          ELSE /\ ~fault
               /\ wf' = [wf EXCEPT !.base_branch = opts.base_branch]
               /\ gitLog' = gitLog
    /\ out' = out \o <<"header", "worktree_mode">>
    /\ pc' = "po_call"
    /\ UNCHANGED <<git, lastCall, calls, opts, task, result, ex, child, queue,
                   sessions, exitCode>>

\* services.py 27-51: the product owner call is started
PoCall ==
    /\ pc = "po_call"
    /\ \E sid \in Uuids, spawn \in BOOLEAN :
          /\ wf' = [wf EXCEPT !.session_id = sid]
          /\ execute_task_start("po", None, spawn)
    /\ out' = out \o <<"po_analysis", "sdk_running">>
    /\ pc' = "po_wait"
    /\ UNCHANGED <<git, lastCall, calls, opts, task, result, sessions, gitLog,
                   exitCode>>

\* the external CLI, running in a worktree, changes files there: it edits a
\* tracked file, creates a file, or stages a change with git add
CliEdits ==
    /\ child = "running"
    /\ Registered(git, ex.cwd)
    /\ \A c \in git.chg : c[1] # ex.cwd
    /\ \E k \in ChangeKinds : git' = [git EXCEPT !.chg = @ \cup {<<ex.cwd, k>>}]
    /\ UNCHANGED <<lastCall, calls, pc, opts, wf, task, result, ex, child, queue,
                   sessions, gitLog, out, exitCode>>

\* claude_repository.py 23-86: the child runs the CLI and reports
ChildRun ==
    /\ child = "running"
    /\ \E o \in CliOutcomes :
          /\ queue' = queue \o run_claude_in_separate_process(o)
          /\ ex' = [ex EXCEPT !.cli = o.kind]
    /\ child' = "put"
    /\ UNCHANGED <<git, lastCall, calls, pc, opts, wf, task, result, sessions,
                   gitLog, out, exitCode>>

\* the child process ends
ChildExit ==
    /\ child = "put"
    /\ child' = "exited"
    /\ UNCHANGED <<git, lastCall, calls, pc, opts, wf, task, result, ex, queue,
                   sessions, gitLog, out, exitCode>>

\* claude_repository.py 213: result_queue.get returns
ParentGet ==
    /\ ex.phase = "get"
    /\ queue # <<>>
    /\ ex' = [ex EXCEPT !.got = Head(queue), !.phase = "join"]
    /\ queue' = Tail(queue)
    /\ UNCHANGED <<git, lastCall, calls, pc, opts, wf, task, result, child, sessions,
                   gitLog, out, exitCode>>

\* execute_task that goes to process.join() after queue.Empty without
\* process.terminate()
ParentTimeout_no_terminate ==
    /\ ex.phase = "get"
    /\ queue = <<>>
    /\ ex' = [ex EXCEPT !.timed_out = TRUE, !.phase = "join"]
    /\ child' = child
    /\ UNCHANGED <<git, lastCall, calls, pc, opts, wf, task, result, queue, sessions,
                   gitLog, out, exitCode>>

\* claude_repository.py 224-225: queue.Empty after 60 seconds, terminate
ParentTimeout ==
    /\ ex.phase = "get"
    /\ queue = <<>>
    /\ ex' = [ex EXCEPT !.timed_out = TRUE, !.phase = "join"]
    /\ child' = IF child = "running" THEN "terminated" ELSE child
    /\ UNCHANGED <<git, lastCall, calls, pc, opts, wf, task, result, queue, sessions,
                   gitLog, out, exitCode>>

\* execute_task without process.join(): the generator yields while the child
\* may still be alive
ParentJoin_no_join ==
    /\ ex.phase = "join"
    /\ LET fr == execute_task_final_result(ex.got)
           mr == execute_task_message_received(ex.got)
       IN  ex' = [ex EXCEPT !.phase = "yielded", !.final_result = fr,
                            !.message_received = mr,
                            !.yields = execute_task_yields(fr, mr)]
    /\ UNCHANGED <<git, lastCall, calls, pc, opts, wf, task, result, child, queue,
                   sessions, gitLog, out, exitCode>>

\* execute_task that joins the child only after queue.Empty: with a tuple
\* read from the queue it goes on to yield at once
ParentJoin_after_timeout_only ==
    /\ ex.phase = "join"
    /\ ex.got # NoTuple \/ child \in {"exited", "terminated"}
    /\ LET fr == execute_task_final_result(ex.got)
           mr == execute_task_message_received(ex.got)
       IN  ex' = [ex EXCEPT !.phase = "yielded", !.final_result = fr,
                            !.message_received = mr,
                            !.yields = execute_task_yields(fr, mr)]
    /\ UNCHANGED <<git, lastCall, calls, pc, opts, wf, task, result, child, queue,
                   sessions, gitLog, out, exitCode>>

\* claude_repository.py 214-254: process.join() returns, the generator yields
ParentJoin ==
    /\ ex.phase = "join"
    /\ child \in {"exited", "terminated"}
    /\ LET fr == execute_task_final_result(ex.got)
           mr == execute_task_message_received(ex.got)
       IN  ex' = [ex EXCEPT !.phase = "yielded", !.final_result = fr,
                            !.message_received = mr,
                            !.yields = execute_task_yields(fr, mr)]
    /\ UNCHANGED <<git, lastCall, calls, pc, opts, wf, task, result, child, queue,
                   sessions, gitLog, out, exitCode>>

\* services.py 52-98: the first message of the product owner is handled;
\* save is whether save_session_state succeeded (it raises otherwise)
PoHandle ==
    /\ pc = "po_wait"
    /\ ex.phase = "yielded"
    /\ LET message == Head(ex.yields)
           instr == po_instructions(message, opts.prompt)
       IN  \E save \in BOOLEAN :
              IF ~save
              THEN /\ result' = ExecutionResult(<<>>, FALSE, <<"po error">>, FALSE)
                   /\ out' = Append(out, "po_error")
                   /\ pc' = "report"
                   /\ UNCHANGED <<wf, sessions>>
              ELSE /\ sessions' = save_session_state(sessions, wf.session_id, <<"po">>, instr)
                   /\ wf' = [wf EXCEPT !.engineer_instructions = instr]
                   /\ IF Strip(instr) = <<>>
                      THEN /\ result' = ExecutionResult(wf.session_id, FALSE,
                                                        <<"no instructions">>, FALSE)
                           /\ out' = out
                           /\ pc' = "report"
                      ELSE /\ result' = result
                           /\ out' = Append(out, "po_done")
                           /\ pc' = "create_task"
    /\ ex' = NoExec
    /\ UNCHANGED <<git, lastCall, calls, opts, task, child, queue, gitLog,
                   exitCode>>

\* services.py 100-101
CreateTask ==
    /\ pc = "create_task"
    /\ \E u \in Uuids :
          task' = DevelopmentTask_create(u, wf.engineer_instructions, wf.base_branch)
    /\ pc' = "create_worktree"
    /\ UNCHANGED <<git, lastCall, calls, opts, wf, result, ex, child, queue, sessions,
                   gitLog, out, exitCode>>

\* services.py 102-128; when create_worktree raises, the exception reaches
\* cli.py 218-226
CreateWorktree ==
    /\ pc = "create_worktree"
    /\ \E f \in [rm : BOOLEAN, add : BOOLEAN] :
          LET r == GitRepository_create_worktree(git, wf.session_id, task.branch_name,
                                                 task.base_branch, f)
          IN  /\ f.rm => Issued(r.cmds, "worktree remove")
              /\ Ran("create_worktree", wf.session_id, task.base_branch,
                      f.rm \/ f.add, r)
              /\ IF r.raised
                 THEN /\ task' = [task EXCEPT !.id = wf.session_id]
                      /\ out' = out \o <<"engineer_start", "unexpected">>
                      /\ exitCode' = 1
                      /\ pc' = "done"
                 ELSE /\ task' = [task EXCEPT !.id = wf.session_id,
                                              !.worktree_path = r.ret,
                                              !.status = "in_progress"]
                      /\ out' = out \o <<"engineer_start", "worktree_ready">>
                      /\ pc' = "eng_call"
                      /\ UNCHANGED exitCode
    /\ UNCHANGED <<calls, opts, wf, result, ex, child, queue, sessions>>

\* services.py 130-141: the engineer call is started
EngCall ==
    /\ pc = "eng_call"
    /\ \E spawn \in BOOLEAN : execute_task_start("engineer", task.worktree_path, spawn)
    /\ out' = Append(out, "sdk_running")
    /\ pc' = "eng_wait"
    /\ UNCHANGED <<git, lastCall, calls, opts, wf, task, result, sessions, gitLog,
                   exitCode>>

\* services.py 142-187: the first message of the engineer is handled, and
\* the early exit of a failed engineer; save as in PoHandle
EngHandle ==
    /\ pc = "eng_wait"
    /\ ex.phase = "yielded"
    /\ LET message == Head(ex.yields)
           is_error == engineer_message_is_error(message)
       IN  \E save \in BOOLEAN :
              /\ (is_error => save)
              /\ LET engineer_success == ~is_error /\ save
                     engineer_error == IF ~is_error /\ ~save THEN <<"OSError">> ELSE None
                 IN  /\ wf' = [wf EXCEPT !.engineer_result = Strip(message),
                                         !.engineer_success = engineer_success,
                                         !.engineer_error = engineer_error]
                     /\ sessions' = IF engineer_success
                                    THEN save_session_state(sessions, wf.session_id,
                                                            <<"engineer">>, Strip(message))
                                    ELSE sessions
                     /\ task' = IF ~engineer_success \/ Truthy(engineer_error)
                                THEN [task EXCEPT !.status = "failed"]
                                ELSE task
                     /\ IF (~engineer_success \/ Truthy(engineer_error))
                           /\ Truthy(engineer_error)
                        THEN /\ result' = ExecutionResult(wf.session_id, FALSE,
                                                          <<"engineer failed">>, TRUE)
                             /\ out' = Append(out, "engineer_failed")
                             /\ pc' = "report"
                        ELSE /\ result' = result
                             /\ out' = out
                                       \o (IF ~engineer_success
                                           THEN <<"engineer_failed">> ELSE <<>>)
                                       \o <<"engineer_done">>
                             /\ pc' = "diff"
    /\ ex' = [ex EXCEPT !.phase = "idle"]
    /\ UNCHANGED <<git, lastCall, calls, opts, child, queue, gitLog, exitCode>>

\* services.py 189-235: git diff --stat, then the commit
DiffCommit ==
    /\ pc = "diff"
    /\ LET diff == Cmd("diff --stat", <<task.worktree_path>>, 0)
       IN  IF GitDiffStat(git, task.worktree_path) # <<>>
           THEN \E f \in [add : BOOLEAN, commit : BOOLEAN] :
                   LET r == GitRepository_commit_changes(git, task.worktree_path, f)
                   IN  /\ f.commit => Issued(r.cmds, "commit")
                       /\ Ran("commit_changes", None, task.worktree_path,
                              f.add \/ f.commit, [r EXCEPT !.cmds = <<diff>> \o @])
                       /\ wf' = [wf EXCEPT !.commit = IF r.ret THEN "ok" ELSE "failed"]
                       /\ task' = [task EXCEPT
                                     !.status = IF r.ret THEN "completed" ELSE "failed"]
                       /\ result' = IF r.ret
                                    THEN ExecutionResult(task.id, TRUE, <<"done">>, TRUE)
                                    ELSE ExecutionResult(task.id, FALSE,
                                                         <<"commit failed">>, TRUE)
                       /\ out' = out \o <<"checking_changes">>
                                     \o (IF r.ret THEN <<"committed">> ELSE <<>>)
           ELSE /\ gitLog' = Append(gitLog, diff)
                /\ out' = out \o <<"checking_changes", "no_changes">>
                /\ wf' = [wf EXCEPT !.commit = "skipped"]
                /\ task' = [task EXCEPT !.status = "completed"]
                /\ result' = ExecutionResult(task.id, TRUE, <<"no changes">>, TRUE)
                /\ UNCHANGED <<git, lastCall>>
    /\ pc' = "report"
    /\ UNCHANGED <<calls, opts, ex, child, queue, sessions, exitCode>>

\* cli.py 104-205 up to the merge: the report, and the answer to the
\* merge question
Report ==
    /\ pc = "report"
    /\ IF result.success /\ result.has_task
       THEN \E confirm \in BOOLEAN :
               /\ (opts.auto_merge => confirm)
               /\ IF confirm
                  THEN /\ out' = out \o <<"all_done", "report">>
                                     \o (IF opts.auto_merge THEN <<"auto_merge">>
                                         ELSE <<"next_action">>)
                       /\ pc' = "merge"
                       /\ exitCode' = exitCode
                  ELSE /\ out' = out \o <<"all_done", "report", "next_action",
                                           "leftover">>
                       /\ pc' = "done"
                       /\ exitCode' = 0
       ELSE /\ out' = out \o <<"all_done", "failure">>
                      \o (IF result.has_task /\ Truthy(task.worktree_path)
                          THEN <<"cleanup">> ELSE <<>>)
            /\ pc' = "done"
            /\ exitCode' = 0
    /\ UNCHANGED <<git, lastCall, calls, opts, wf, task, result, ex, child, queue,
                   sessions, gitLog>>

\* review_and_merge that sets MERGED whatever merge_branch returned
Merge_marks_merged_anyway ==
    /\ pc = "merge"
    /\ \E f \in [checkout : BOOLEAN, merge : BOOLEAN, del : BOOLEAN, rm : BOOLEAN] :
          LET r0 == GitRepository_get_diff_stats(git, task.branch_name)
              r1 == GitRepository_merge_branch(r0.g, task.branch_name, f)
              r2 == GitRepository_remove_worktree(r1.g, task.id, f.rm)
          IN  IF r1.ret
              THEN /\ f.rm => Issued(r2.cmds, "worktree remove")
                   /\ git' = r2.g
                   /\ gitLog' = gitLog \o r0.cmds \o r1.cmds \o r2.cmds
                   /\ lastCall' = [op |-> "review_and_merge", cls |-> "GitRepository",
                                   task_id |-> task.id, arg |-> task.branch_name,
                                   pre |-> git.dirs,
                                   faulted |-> f.checkout \/ f.merge \/ f.del \/ f.rm,
                                   cmds |-> r0.cmds \o r1.cmds \o r2.cmds,
                                   ret |-> TRUE, raised |-> FALSE]
                   /\ task' = [task EXCEPT !.status = "merged"]
                   /\ wf' = [wf EXCEPT !.merge = "ok"]
                   /\ out' = out \o <<"reviewing", "merged">>
              ELSE /\ ~f.rm /\ ~f.del
                   /\ f.merge => Issued(r1.cmds, "merge")
                   /\ git' = r1.g
                   /\ gitLog' = gitLog \o r0.cmds \o r1.cmds
                   /\ lastCall' = [op |-> "review_and_merge", cls |-> "GitRepository",
                                   task_id |-> task.id, arg |-> task.branch_name,
                                   pre |-> git.dirs,
                                   faulted |-> f.checkout \/ f.merge,
                                   cmds |-> r0.cmds \o r1.cmds,
                                   ret |-> FALSE, raised |-> FALSE]
                   /\ task' = [task EXCEPT !.status = "merged"]
                   /\ wf' = [wf EXCEPT !.merge = "failed"]
                   /\ out' = out \o <<"reviewing", "merge_failed">>
    /\ pc' = "done"
    /\ exitCode' = 0
    /\ UNCHANGED <<calls, opts, result, ex, child, queue, sessions>>

\* services.py 237-275 review_and_merge, and the panel of cli.py 127-162
Merge ==
    /\ pc = "merge"
    /\ \E f \in [checkout : BOOLEAN, merge : BOOLEAN, del : BOOLEAN, rm : BOOLEAN] :
          LET r0 == GitRepository_get_diff_stats(git, task.branch_name)
              r1 == GitRepository_merge_branch(r0.g, task.branch_name, f)
              r2 == GitRepository_remove_worktree(r1.g, task.id, f.rm)
          IN  IF r1.ret
              THEN /\ f.rm => Issued(r2.cmds, "worktree remove")
                   /\ git' = r2.g
                   /\ gitLog' = gitLog \o r0.cmds \o r1.cmds \o r2.cmds
                   /\ lastCall' = [op |-> "review_and_merge", cls |-> "GitRepository",
                                   task_id |-> task.id, arg |-> task.branch_name,
                                   pre |-> git.dirs,
                                   faulted |-> f.checkout \/ f.merge \/ f.del \/ f.rm,
                                   cmds |-> r0.cmds \o r1.cmds \o r2.cmds,
                                   ret |-> TRUE, raised |-> FALSE]
                   /\ task' = [task EXCEPT !.status = "merged"]
                   /\ wf' = [wf EXCEPT !.merge = "ok"]
                   /\ out' = out \o <<"reviewing", "merged">>
              ELSE /\ ~f.rm /\ ~f.del
                   /\ f.merge => Issued(r1.cmds, "merge")
                   /\ git' = r1.g
                   /\ gitLog' = gitLog \o r0.cmds \o r1.cmds
                   /\ lastCall' = [op |-> "review_and_merge", cls |-> "GitRepository",
                                   task_id |-> task.id, arg |-> task.branch_name,
                                   pre |-> git.dirs,
                                   faulted |-> f.checkout \/ f.merge,
                                   cmds |-> r0.cmds \o r1.cmds,
                                   ret |-> FALSE, raised |-> FALSE]
                   /\ task' = task
                   /\ wf' = [wf EXCEPT !.merge = "failed"]
                   /\ out' = out \o <<"reviewing", "merge_failed">>
    /\ pc' = "done"
    /\ exitCode' = 0
    /\ UNCHANGED <<calls, opts, result, ex, child, queue, sessions>>

\* cli.py 209-217: what the KeyboardInterrupt handler prints and how it
\* ends. The panel's text reads task.id, and main binds no name task (the
\* task is a local of run_task and of the service): building the panel
\* raises NameError, which leaves main uncaught
main_on_keyboard_interrupt ==
    [out |-> <<"Traceback: NameError: name 'task' is not defined">>,
     exit |-> 1]

InWorkflow == {"po_call", "po_wait", "create_task", "create_worktree", "eng_call",
               "eng_wait", "diff", "report", "merge"}

\* cli.py 207-217: a KeyboardInterrupt leaves asyncio.run(run_task())
Interrupt ==
    /\ pc \in InWorkflow
    /\ out' = out \o main_on_keyboard_interrupt.out
    /\ exitCode' = main_on_keyboard_interrupt.exit
    /\ pc' = "done"
    /\ UNCHANGED <<git, lastCall, calls, opts, wf, task, result, ex, child, queue,
                   sessions, gitLog>>

Next ==
    \/ MainStart
    \/ PoCall
    \/ CliEdits
    \/ ChildRun
    \/ ChildExit
    \/ ParentGet
    \/ ParentTimeout
    \/ ParentJoin
    \/ PoHandle
    \/ CreateTask
    \/ CreateWorktree
    \/ EngCall
    \/ EngHandle
    \/ DiffCommit
    \/ Report
    \/ Merge
    \/ Interrupt

Spec == Init /\ [][Next]_vars

\* ------------------------------------------------------------------------
\* hello_cli/main.py: the commands hello and claude (SpecHello)
\* ------------------------------------------------------------------------
\* The console renders console markup in what it prints: a token such as
\* "[b]" opens a style and is not shown, "[/b]" closes the style b, "[/]"
\* closes the style opened last; a closing tag that closes nothing raises
\* MarkupError. A tag starts with a lower-case letter or "/": the upper-case
\* "[B]" is ordinary text.
OpenTags == {"[bold green]", "[b]"}

CloseTags == {"[/bold green]", "[/b]"}

OpenOf(t) == IF t = "[/bold green]" THEN "[bold green]" ELSE "[b]"

\* str.upper() on the tokens of the greeting
UpperToken(t) ==
    CASE t = "Hello " -> "HELLO "
      [] t = "World" -> "WORLD"
      [] t = "Alice" -> "ALICE"
      [] t = "[b]" -> "[B]"
      [] OTHER -> t

Upper(s) == [i \in DOMAIN s |-> UpperToken(s[i])]

\* the largest index of stack holding tag t, 0 when there is none
LastOpen(stack, t) ==
    IF \E i \in DOMAIN stack : stack[i] = t
    THEN CHOOSE i \in DOMAIN stack :
            stack[i] = t /\ \A j \in DOMAIN stack : stack[j] = t => j <= i
    ELSE 0

RECURSIVE markup_render(_, _, _)
markup_render(s, stack, acc) ==
    IF s = <<>> THEN [text |-> acc, error |-> FALSE]
    ELSE LET t == Head(s)
         IN  IF t \in OpenTags
             THEN markup_render(Tail(s), Append(stack, t), acc)
             ELSE IF t = "[/]"
             THEN IF stack = <<>>
                  THEN [text |-> acc, error |-> TRUE]
                  ELSE markup_render(Tail(s), SubSeq(stack, 1, Len(stack) - 1), acc)
             ELSE IF t \in CloseTags
             THEN LET k == LastOpen(stack, OpenOf(t))
                  IN  IF k = 0
                      THEN [text |-> acc, error |-> TRUE]
                      ELSE markup_render(Tail(s),
                                         SubSeq(stack, 1, k - 1)
                                         \o SubSeq(stack, k + 1, Len(stack)),
                                         acc)
             ELSE markup_render(Tail(s), stack, Append(acc, t))

\* console.print(markup): the text shown, or error when MarkupError is raised
console_print(markup) == markup_render(markup, <<>>, <<>>)

\* what is printed, in SpecHello
Line(text) == [kind |-> "line", text |-> text]
Panel(title, text) == [kind |-> "panel", title |-> title, text |-> text]
Table(rows) == [kind |-> "table", rows |-> rows]
Msg(id) == [kind |-> "msg", text |-> <<id>>]

MaxCount == 3

\* the name argument: not given, or the empty string, or a name
Names == {None, <<>>, <<"Alice">>, <<"[b]">>, <<"[/]">>}

Styles == {"simple", "fancy", "table"}

\* hello, lines 213-220: the greeting message
hello_message(name, uppercase) ==
    LET target == IF name = None \/ name = <<>> THEN <<"World">> ELSE name
        message == <<"Hello ">> \o target \o <<"!">>
    IN  IF uppercase THEN Upper(message) ELSE message

HelloOpts ==
    [cmd : {"hello"}, name : Names, count : 1..MaxCount, uppercase : BOOLEAN,
     style : Styles]

ClaudeOpts ==
    [cmd : {"claude"}, prompt : {<<"add a feature">>}, no_worktree : BOOLEAN,
     base_branch : BaseBranches, auto_merge : BOOLEAN, sdk : BOOLEAN]

\* a repository in which an earlier hello-cli run left its worktree behind
LeftoverHello ==
    [CleanRepo(Main, {worktree_base_path,
                      GitWorktreeManager_worktree_path(Rep("a", UuidLen))})
        EXCEPT !.branches = @ \cup {FeatureBranch(Rep("a", UuidLen))},
               !.worktrees = {[path |-> GitWorktreeManager_worktree_path(Rep("a", UuidLen)),
                               branch |-> FeatureBranch(Rep("a", UuidLen))]}]

InitHello ==
    /\ \/ opts \in HelloOpts /\ git = CleanRepo(Main, {}) /\ pc = "hello"
       \/ /\ opts \in ClaudeOpts
          /\ git \in {CleanRepo(Main, {}), CleanRepo(Dev, {}), LeftoverHello}
          /\ pc = "claude"
    /\ lastCall = NoCall
    /\ calls = 0
    /\ wf = NoWf
    /\ task = NoTask
    /\ result = NoResult
    /\ ex = NoExec
    /\ child = "none"
    /\ queue = <<>>
    /\ sessions = {}
    /\ gitLog = <<>>
    /\ out = <<>>
    /\ exitCode = None

helloFrame == <<git, lastCall, calls, opts, task, result, ex, child, queue, sessions,
                gitLog>>

\* hello, lines 213-220
HelloStart ==
    /\ pc = "hello"
    /\ wf' = [message |-> hello_message(opts.name, opts.uppercase), i |-> 0]
    /\ pc' = "greet"
    /\ UNCHANGED <<out, exitCode>>
    /\ UNCHANGED helloFrame

\* hello, lines 241-244: one round of the loop of the simple style
HelloSimple ==
    /\ pc = "greet"
    /\ opts.style \notin {"fancy", "table"}
    /\ wf.i < opts.count
    /\ LET r == console_print(<<"[bold green]">> \o wf.message \o <<"[/bold green]">>)
       IN  IF r.error
           THEN /\ out' = Append(out, Msg("Traceback: MarkupError"))
                /\ exitCode' = 1
                /\ pc' = "done"
                /\ wf' = wf
           ELSE /\ out' = Append(out, Line(r.text))
                /\ wf' = [wf EXCEPT !.i = @ + 1]
                /\ UNCHANGED <<pc, exitCode>>
    /\ UNCHANGED helloFrame

\* hello, lines 223-231: one round of the loop of the fancy style; the
\* message is wrapped in Text, which takes it literally
HelloFancy ==
    /\ pc = "greet"
    /\ opts.style = "fancy"
    /\ wf.i < opts.count
    /\ out' = Append(out, Panel(wf.i + 1, wf.message))
    /\ wf' = [wf EXCEPT !.i = @ + 1]
    /\ UNCHANGED <<pc, exitCode>>
    /\ UNCHANGED helloFrame

\* hello, lines 232-240: the table style, one row per greeting; the cells
\* are rendered as markup when the table is printed
HelloTable ==
    /\ pc = "greet"
    /\ opts.style = "table"
    /\ wf.i = 0
    /\ LET r == console_print(wf.message)
       IN  IF r.error
           THEN /\ out' = Append(out, Msg("Traceback: MarkupError"))
                /\ exitCode' = 1
                /\ pc' = "done"
                /\ wf' = wf
           ELSE /\ out' = Append(out, Table([i \in 1..opts.count |-> r.text]))
                /\ wf' = [wf EXCEPT !.i = opts.count]
                /\ UNCHANGED <<pc, exitCode>>
    /\ UNCHANGED helloFrame

\* hello returns
HelloEnd ==
    /\ pc = "greet"
    /\ wf.i = opts.count
    /\ exitCode' = 0
    /\ pc' = "done"
    /\ UNCHANGED <<wf, out>>
    /\ UNCHANGED helloFrame

\* the current directory of the command, as a path changes are recorded under
Cwd == <<".">>

NoLocals == [task_id |-> None, use_worktree |-> FALSE, worktree_path |-> None,
             branch_name |-> None, working_directory |-> None]

claudeFrame == <<calls, opts, task, result, ex, child, queue, sessions>>

\* claude with the SDK check placed after the task id is drawn
ClaudeStart_late_check ==
    /\ pc = "claude"
    /\ \E u \in Uuids :
          wf' = [NoLocals EXCEPT !.task_id = u, !.use_worktree = ~opts.no_worktree]
    /\ IF ~opts.sdk
       THEN /\ out' = Append(out, Msg("missing_sdk"))
            /\ exitCode' = 1
            /\ pc' = "done"
       ELSE /\ pc' = "run_claude"
            /\ UNCHANGED <<out, exitCode>>
    /\ UNCHANGED <<git, lastCall, gitLog>>
    /\ UNCHANGED claudeFrame

\* claude that does not read no_worktree
ClaudeStart_ignores_no_worktree ==
    /\ pc = "claude"
    /\ IF ~opts.sdk
       THEN /\ out' = Append(out, Msg("missing_sdk"))
            /\ exitCode' = 1
            /\ pc' = "done"
            /\ wf' = wf
       ELSE /\ \E u \in Uuids :
                  wf' = [NoLocals EXCEPT !.task_id = u, !.use_worktree = TRUE]
            /\ pc' = "run_claude"
            /\ UNCHANGED <<out, exitCode>>
    /\ UNCHANGED <<git, lastCall, gitLog>>
    /\ UNCHANGED claudeFrame

\* claude, lines 368-384: the SDK check, then the task id is drawn
ClaudeStart ==
    /\ pc = "claude"
    /\ IF ~opts.sdk
       THEN /\ out' = Append(out, Msg("missing_sdk"))
            /\ exitCode' = 1
            /\ pc' = "done"
            /\ wf' = wf
       ELSE /\ \E u \in Uuids :
                  wf' = [NoLocals EXCEPT !.task_id = u,
                                         !.use_worktree = ~opts.no_worktree]
            /\ pc' = "run_claude"
            /\ UNCHANGED <<out, exitCode>>
    /\ UNCHANGED <<git, lastCall, gitLog>>
    /\ UNCHANGED claudeFrame

\* run_claude, lines 389-414: the header, and the worktree when one is used;
\* an exception is caught at line 531 and run_claude returns
ClaudeSetup ==
    /\ pc = "run_claude"
    /\ IF wf.use_worktree
       THEN \E f \in [rm : BOOLEAN, add : BOOLEAN] :
               LET r == GitWorktreeManager_create_worktree(git, wf.task_id,
                                                           opts.base_branch, f)
               IN  /\ f.rm => Issued(r.cmds, "worktree remove")
                   /\ git' = r.g
                   /\ gitLog' = gitLog \o r.cmds
                   /\ lastCall' = [op |-> "create_worktree",
                                   cls |-> "GitWorktreeManager",
                                   task_id |-> wf.task_id, arg |-> opts.base_branch,
                                   pre |-> git.dirs, faulted |-> f.rm \/ f.add,
                                   cmds |-> r.cmds, ret |-> r.ret,
                                   raised |-> r.raised]
                   /\ IF r.raised
                      THEN /\ out' = out \o <<Msg("header"), Msg("worktree_mode"),
                                              Msg("error")>>
                           /\ wf' = wf
                           /\ pc' = "post"
                      ELSE /\ out' = out \o <<Msg("header"), Msg("worktree_mode"),
                                              Msg("worktree_ready")>>
                           /\ wf' = [wf EXCEPT !.worktree_path = r.ret,
                                               !.branch_name = FeatureBranch(wf.task_id),
                                               !.working_directory = r.ret]
                           /\ pc' = "query"
       ELSE /\ out' = out \o <<Msg("header"), Msg("current_directory")>>
            /\ pc' = "query"
            /\ UNCHANGED <<git, gitLog, lastCall, wf>>
    /\ exitCode' = exitCode
    /\ UNCHANGED claudeFrame

\* the agent started by query() changes files in its working directory (the
\* current directory when working_directory is None)
ClaudeAgentEdits ==
    /\ pc = "query"
    /\ LET dir == IF wf.working_directory = None THEN Cwd ELSE wf.working_directory
       IN  /\ \A c \in git.chg : c[1] # dir
           /\ \E k \in ChangeKinds : git' = [git EXCEPT !.chg = @ \cup {<<dir, k>>}]
    /\ UNCHANGED <<lastCall, gitLog, pc, wf, out, exitCode>>
    /\ UNCHANGED claudeFrame

\* run_claude leaving the command with typer.Exit(1) when query() raises
ClaudeQueryEnd_exits_on_error ==
    /\ pc = "query"
    /\ \E ok \in BOOLEAN :
          IF ~ok
          THEN /\ out' = Append(out, Msg("error"))
               /\ pc' = "done"
               /\ exitCode' = 1
          ELSE IF wf.use_worktree
          THEN /\ out' = Append(out, Msg("worktree_ai_done"))
               /\ pc' = "commit"
               /\ exitCode' = exitCode
          ELSE /\ out' = Append(out, Msg("claude_done"))
               /\ pc' = "post"
               /\ exitCode' = exitCode
    /\ UNCHANGED <<git, lastCall, gitLog, wf>>
    /\ UNCHANGED claudeFrame

\* run_claude, lines 448-469 and 506-537: query() is exhausted, or raises
ClaudeQueryEnd ==
    /\ pc = "query"
    /\ \E ok \in BOOLEAN :
          IF ~ok
          THEN /\ out' = Append(out, Msg("error"))
               /\ pc' = "post"
          ELSE IF wf.use_worktree
          THEN /\ out' = Append(out, Msg("worktree_ai_done"))
               /\ pc' = "commit"
          ELSE /\ out' = Append(out, Msg("claude_done"))
               /\ pc' = "post"
    /\ UNCHANGED <<git, lastCall, gitLog, wf, exitCode>>
    /\ UNCHANGED claudeFrame

\* run_claude, lines 471-492 and 527-537: git diff --stat, then add and
\* commit with check=True; CalledProcessError is caught at line 531
ClaudeCommit ==
    /\ pc = "commit"
    /\ LET dir == wf.working_directory
           diff == Cmd("diff --stat", <<dir>>, 0)
       IN  IF GitDiffStat(git, dir) # <<>>
           THEN \E f \in [add : BOOLEAN, commit : BOOLEAN] :
                   LET r1 == GitAddAll(git, dir, f.add)
                       r2 == GitCommit(r1.g, dir, f.commit)
                       c1 == Cmd("add", <<dir>>, r1.rc)
                       c2 == Cmd("commit", <<dir>>, r2.rc)
                   IN  /\ f.commit => r1.rc = 0
                       /\ IF r1.rc # 0
                          THEN /\ git' = r1.g
                               /\ gitLog' = gitLog \o <<diff, c1>>
                               /\ out' = out \o <<Msg("checking_changes"), Msg("error")>>
                          ELSE IF r2.rc # 0
                          THEN /\ git' = r2.g
                               /\ gitLog' = gitLog \o <<diff, c1, c2>>
                               /\ out' = out \o <<Msg("checking_changes"), Msg("error")>>
                          ELSE /\ git' = r2.g
                               /\ gitLog' = gitLog \o <<diff, c1, c2>>
                               /\ out' = out \o <<Msg("checking_changes"),
                                                  Msg("committed"), Msg("claude_done")>>
           ELSE /\ git' = git
                /\ gitLog' = Append(gitLog, diff)
                /\ out' = out \o <<Msg("checking_changes"), Msg("no_changes"),
                                   Msg("claude_done")>>
    /\ pc' = "post"
    /\ UNCHANGED <<lastCall, wf, exitCode>>
    /\ UNCHANGED claudeFrame

\* claude, lines 547-619: the report and the merge, when a worktree was made
ClaudePost ==
    /\ pc = "post"
    /\ IF wf.use_worktree /\ Truthy(wf.worktree_path) /\ Truthy(wf.branch_name)
       THEN \E answer \in {"yes", "no", "interrupt"} :
               /\ (opts.auto_merge => answer = "yes")
               /\ IF answer = "yes"
                  THEN \E f \in [checkout : BOOLEAN, merge : BOOLEAN, rm : BOOLEAN,
                                 del : BOOLEAN] :
                          LET r == GitWorktreeManager_merge_and_cleanup(
                                       git, wf.task_id, wf.branch_name, f)
                          IN  /\ f.merge => Issued(r.cmds, "merge")
                              /\ f.rm => Issued(r.cmds, "worktree remove")
                              /\ f.del => Issued(r.cmds, "branch -d")
                              /\ git' = r.g
                              /\ gitLog' = gitLog \o r.cmds
                              /\ lastCall' = [op |-> "merge",
                                              cls |-> "GitWorktreeManager",
                                              task_id |-> wf.task_id,
                                              arg |-> wf.branch_name,
                                              pre |-> git.dirs,
                                              faulted |-> f.checkout \/ f.merge
                                                          \/ f.rm \/ f.del,
                                              cmds |-> r.cmds, ret |-> r.ret,
                                              raised |-> r.raised]
                              /\ out' = out \o <<Msg("report"),
                                                 Msg(IF opts.auto_merge THEN "auto_merge"
                                                     ELSE "next_action"),
                                                 Msg(IF r.ret THEN "merged"
                                                     ELSE "merge_failed")>>
                              /\ exitCode' = 0
                  ELSE /\ out' = out \o <<Msg("report"), Msg("next_action"),
                                          Msg(IF answer = "no" THEN "leftover"
                                              ELSE "interrupted")>>
                       /\ exitCode' = IF answer = "no" THEN 0 ELSE 1
                       /\ UNCHANGED <<git, gitLog, lastCall>>
       ELSE /\ exitCode' = 0
            /\ UNCHANGED <<git, gitLog, lastCall, out>>
    /\ pc' = "done"
    /\ wf' = wf
    /\ UNCHANGED claudeFrame

NextHello ==
    \/ HelloStart
    \/ HelloSimple
    \/ HelloFancy
    \/ HelloTable
    \/ HelloEnd
    \/ ClaudeStart
    \/ ClaudeSetup
    \/ ClaudeAgentEdits
    \/ ClaudeQueryEnd
    \/ ClaudeCommit
    \/ ClaudePost

SpecHello == InitHello /\ [][NextHello]_vars

\* ------------------------------------------------------------------------
\* SpecSession: save_session_state and load_session_state of
\* ClaudeRepository driven by an arbitrary caller
\* ------------------------------------------------------------------------
SessionIds == {<<"a">>, <<"a", "_", "b">>}

AgentTypes == {<<"po">>, <<"c">>, <<"b", "_", "c">>}

SessionResults == {<<"edit main.py">>, <<>>}

InitSession ==
    /\ git = CleanRepo(Main, {})
    /\ lastCall = NoCall
    /\ calls = 0
    /\ IdleCommand

sessionFrame == <<git, pc, opts, wf, task, result, ex, child, queue, gitLog, out,
                  exitCode>>

\* save_session_state(s, a, r); fault: the file cannot be opened for
\* writing, OSError is raised and nothing is written
CallSave ==
    /\ calls < MaxCalls
    /\ \E s \in SessionIds, a \in AgentTypes, r \in SessionResults, fault \in BOOLEAN :
          /\ sessions' = IF fault THEN sessions
                         ELSE save_session_state(sessions, s, a, r)
          /\ lastCall' = [op |-> "save_session_state", cls |-> "ClaudeRepository",
                          task_id |-> s, arg |-> <<a, r>>, pre |-> {},
                          faulted |-> fault, cmds |-> <<>>, ret |-> None,
                          raised |-> fault]
    /\ calls' = calls + 1
    /\ UNCHANGED sessionFrame

\* load_session_state(s, a)
CallLoad ==
    /\ calls < MaxCalls
    /\ \E s \in SessionIds, a \in AgentTypes :
          lastCall' = [op |-> "load_session_state", cls |-> "ClaudeRepository",
                       task_id |-> s, arg |-> <<a>>, pre |-> {}, faulted |-> FALSE,
                       cmds |-> <<>>, ret |-> load_session_state(sessions, s, a),
                       raised |-> FALSE]
    /\ calls' = calls + 1
    /\ UNCHANGED sessions
    /\ UNCHANGED sessionFrame

NextSession ==
    \/ CallSave
    \/ CallLoad

SpecSession == InitSession /\ [][NextSession]_vars

\* ------------------------------------------------------------------------
\* ClaudeRepository.execute_task called on its own, one call after another
\* ------------------------------------------------------------------------
InitExec ==
    /\ git = CleanRepo(Main, {})
    /\ lastCall = NoCall
    /\ calls = 0
    /\ IdleCommand

\* claude_repository.py 126-209: a caller iterates execute_task
ExecStart ==
    /\ calls < MaxCalls
    /\ ex.phase \in {"idle", "yielded"}
    /\ \E who \in {"po", "engineer"}, spawn \in BOOLEAN :
          execute_task_start(who, None, spawn)
    /\ calls' = calls + 1
    /\ UNCHANGED <<git, lastCall, pc, opts, wf, task, result, sessions, gitLog, out,
                   exitCode>>

NextExec ==
    \/ ExecStart
    \/ ChildRun
    \/ ChildExit
    \/ ParentGet
    \/ ParentTimeout
    \/ ParentJoin

SpecExec == InitExec /\ [][NextExec]_vars

\* The parent's steps are taken when they can be: result_queue.get(timeout=60)
\* returns or raises queue.Empty within 60 seconds, and process.join() returns
\* once the child is gone; a child that has put its tuples returns from its
\* target function and its process ends. Nothing is assumed about ChildRun:
\* the CLI may never exit, and subprocess.run's own timeout waits for the
\* CLI's pipes to close after killing it
SpecExecLive ==
    /\ InitExec
    /\ [][NextExec]_vars
    /\ WF_vars(ParentGet)
    /\ WF_vars(ParentTimeout)
    /\ WF_vars(ParentJoin)
    /\ WF_vars(ChildExit)

\* ------------------------------------------------------------------------
\* ClaudeRepository.execute_task: the prompt handed to the child process
\* ------------------------------------------------------------------------
\* a prompt is a sequence of characters, one token each
PromptBudget == 2000
Ellipsis == <<".", ".", ".">>

\* a lone surrogate, as sys.argv holds for a byte that is not UTF-8: the one
\* kind of character str.encode('utf-8') cannot encode
Surrogate == "<surrogate>"

\* execute_task cutting a prompt of exactly the budget as well
truncate_prompt_from_budget(prompt) ==
    IF Len(prompt) >= PromptBudget
    THEN SubSeq(prompt, 1, PromptBudget) \o Ellipsis
    ELSE prompt

\* claude_repository.py 167-169
truncate_prompt(prompt) ==
    IF Len(prompt) > PromptBudget
    THEN SubSeq(prompt, 1, PromptBudget) \o Ellipsis
    ELSE prompt

Encodable(c) == c # Surrogate

\* claude_repository.py 177: encode('utf-8', errors='ignore') leaves out what
\* it cannot encode, decode('utf-8') gives back the rest
safe_prompt(prompt) == SelectSeq(truncate_prompt(prompt), Encodable)

MaxOver == 6

PromptLengths ==
    (0..2) \cup ((PromptBudget - MaxOver)..(PromptBudget + MaxOver))

\* where a prompt of length n may hold a surrogate
SurrogateSets(n) ==
    {{}} \cup {{i} : i \in {1, n, PromptBudget, PromptBudget + 1} \cap (1..n)}

PromptOf(n, at) == [i \in 1..n |-> IF i \in at THEN Surrogate ELSE "x"]

Prompts == UNION {{PromptOf(n, at) : at \in SurrogateSets(n)} : n \in PromptLengths}

InitPrompt ==
    /\ git = CleanRepo(Main, {})
    /\ lastCall = NoCall
    /\ calls = 0
    /\ pc = "idle"
    /\ opts \in {[NoOpts EXCEPT !.prompt = p] : p \in Prompts}
    /\ wf = NoWf
    /\ task = NoTask
    /\ result = NoResult
    /\ ex = NoExec
    /\ child = "none"
    /\ queue = <<>>
    /\ sessions = {}
    /\ gitLog = <<>>
    /\ out = <<>>
    /\ exitCode = None

\* claude_repository.py 166-207: execute_task(prompt, ...) up to the creation
\* of the child process; ret is the prompt among the child's arguments
ExecutePrompt ==
    /\ lastCall = NoCall
    /\ lastCall' = [op |-> "execute_task", cls |-> "ClaudeRepository",
                    task_id |-> None, arg |-> opts.prompt, pre |-> {},
                    faulted |-> FALSE, cmds |-> <<>>,
                    ret |-> safe_prompt(opts.prompt), raised |-> FALSE]
    /\ calls' = calls + 1
    /\ UNCHANGED <<git, pc, opts, wf, task, result, ex, child, queue, sessions,
                   gitLog, out, exitCode>>

NextPrompt == ExecutePrompt

SpecPrompt == InitPrompt /\ [][NextPrompt]_vars

\* ------------------------------------------------------------------------
\* Properties
\* ------------------------------------------------------------------------
\* the engineer step was handled and the workflow has returned its result
EngineerStepOver == pc \in {"report", "merge", "done"} /\ result.has_task

CommitNeverCalled == \A i \in DOMAIN gitLog : gitLog[i].cmd \notin {"add", "commit"}

AllZero(cmds) == \A i \in DOMAIN cmds : cmds[i].rc = 0

\* exit code of command c in cmds, -1 when it was not run
RcOf(cmds, c) ==
    IF Issued(cmds, c) THEN cmds[CHOOSE i \in DOMAIN cmds : cmds[i].cmd = c].rc ELSE -1

\* C1: whenever the engineer step failed - its reply was classified as an
\* error, or the call raised - the workflow returns success=False, the task
\* ends FAILED and commit_changes was never called.
C1_FailedEngineerEndsEarly ==
    (EngineerStepOver /\ ~wf.engineer_success)
        => /\ ~result.success
           /\ task.status = "failed"
           /\ CommitNeverCalled

\* C2: iterated to exhaustion, execute_task yields exactly one message, on
\* the success, CLI-error, timeout and process-exception paths alike.
C2_ExactlyOneMessage == ex.phase = "yielded" => Len(ex.yields) = 1

\* C3: whenever the CLI timed out in the engineer step - by the child's
\* subprocess timeout or by the parent's queue-read timeout - the workflow
\* returns success=False, the task ends FAILED and nothing was committed.
C3_TimeoutFailsEngineerStep ==
    (EngineerStepOver /\ ex.who = "engineer" /\ (ex.cli = "timeout" \/ ex.timed_out))
        => /\ ~result.success
           /\ task.status = "failed"
           /\ CommitNeverCalled

\* C4: at every point from its creation on, the task's branch_name is
\* "feature/task-" followed by the task's current id.
C4_BranchNameFollowsId == task # NoTask => task.branch_name = FeatureBranch(task.id)

MergeSucceeded == lastCall.op = "review_and_merge" /\ lastCall.ret = TRUE

ChecksOutOnly(b) ==
    \A i \in DOMAIN lastCall.cmds :
        lastCall.cmds[i].cmd = "checkout" => lastCall.cmds[i].args = <<b>>

\* C5 as claimed: a successful merge of the task checked out the task's
\* base_branch, and the feature branch was merged into base_branch.
C5_MergeLandsOnBaseBranch ==
    MergeSucceeded
        => /\ ChecksOutOnly(task.base_branch)
           /\ git.head = task.base_branch
           /\ \A m \in git.merges : m[2] = task.branch_name => m[1] = task.base_branch

\* C5 as amended: a successful merge of the task checked out main, and the
\* feature branch was merged into main, whatever the task's base_branch is.
C5_MergeLandsOnMain ==
    MergeSucceeded
        => /\ ChecksOutOnly(Main)
           /\ Issued(lastCall.cmds, "checkout")
           /\ git.head = Main
           /\ \A m \in git.merges : m[2] = task.branch_name => m[1] = Main

\* a task based on dev was merged, and its commit landed on main
C5_Witness ==
    /\ MergeSucceeded
    /\ task.base_branch = Dev
    /\ <<Main, task.branch_name>> \in git.merges

\* C6: whenever a merge reported success (and git itself did not fail for
\* outside reasons), the worktree was removed before `git branch -d` was
\* attempted, and the feature branch no longer exists.
C6_WorktreeRemovedBeforeBranchDelete ==
    (lastCall.op \in {"merge", "review_and_merge"} /\ lastCall.ret = TRUE
     /\ ~lastCall.faulted)
        => /\ \A i \in DOMAIN lastCall.cmds :
                 lastCall.cmds[i].cmd = "branch -d"
                     => \E j \in 1..(i - 1) : lastCall.cmds[j].cmd = "worktree remove"
           /\ lastCall.arg \notin git.branches

MergeBranchCalled == lastCall.op = "merge" /\ lastCall.cls = "GitRepository"

\* C7 as claimed: merge_branch returns true only if every git command it
\* ran - checkout, merge, branch deletion - exited with status zero.
C7_TrueOnlyIfEveryStepSucceeded ==
    MergeBranchCalled => (lastCall.ret = TRUE => AllZero(lastCall.cmds))

\* C7 as amended: merge_branch returns true exactly when the checkout and
\* the merge both exited with status zero; the exit status of the branch
\* deletion does not enter the result.
C7_TrueIffCheckoutAndMergeSucceeded ==
    MergeBranchCalled
        => (lastCall.ret = TRUE
               <=> (RcOf(lastCall.cmds, "checkout") = 0 /\ RcOf(lastCall.cmds, "merge") = 0))

\* merge_branch returned true although the branch deletion failed
C7_Witness ==
    /\ MergeBranchCalled
    /\ lastCall.ret = TRUE
    /\ RcOf(lastCall.cmds, "branch -d") = 1

\* C8: create_worktree for a task id whose derived path already exists (git
\* itself not failing for outside reasons) removes what is there, succeeds,
\* and leaves exactly one worktree at that path.
C8_CreateOverExistingPathSucceeds ==
    (lastCall.op = "create_worktree" /\ ~lastCall.faulted
     /\ PathOf(lastCall.cls, lastCall.task_id) \in lastCall.pre)
        => /\ RcOf(lastCall.cmds, "worktree remove") = 0
           /\ ~lastCall.raised
           /\ Cardinality({w \in git.worktrees :
                              w.path = PathOf(lastCall.cls, lastCall.task_id)}) = 1

\* C9: remove_worktree runs `git worktree remove <path> --force`, and
\* nothing else, if the path derived from the task id exists; if it does
\* not exist it runs no git command and leaves the repository unchanged.
C9_RemoveOnlyIfPathExists ==
    [][(lastCall'.op = "remove_worktree" /\ calls' = calls + 1)
          => LET p == PathOf(lastCall'.cls, lastCall'.task_id)
                 cmds == lastCall'.cmds
             IN  /\ p \in git.dirs
                       => /\ Len(cmds) = 1
                          /\ cmds[1].cmd = "worktree remove"
                          /\ cmds[1].args = <<p, <<"--force">>>>
                 /\ p \notin git.dirs => (cmds = <<>> /\ git' = git)]_vars

\* remove_worktree was called for a path that does not exist
C9_Witness ==
    /\ lastCall.op = "remove_worktree"
    /\ PathOf(lastCall.cls, lastCall.task_id) \notin lastCall.pre
    /\ lastCall.cmds = <<>>

\* C10: commit_changes raises nothing; it returns false exactly when
\* `git add -A` or `git commit` exited non-zero; after a failed `git add -A`
\* no `git commit` is attempted.
C10_CommitReportsExitCodes ==
    lastCall.op = "commit_changes"
        => /\ ~lastCall.raised
           /\ Issued(lastCall.cmds, "add")
           /\ lastCall.ret = FALSE <=> ~AllZero(lastCall.cmds)
           /\ RcOf(lastCall.cmds, "add") # 0 => ~Issued(lastCall.cmds, "commit")

\* git add -A failed, commit_changes returned false without committing
C10_Witness ==
    /\ lastCall.op = "commit_changes"
    /\ lastCall.ret = FALSE
    /\ RcOf(lastCall.cmds, "add") = 1
    /\ ~Issued(lastCall.cmds, "commit")

\* ------------------------------------------------------------------------
\* Properties of the order of the steps, of retries and of failure reports
\* ------------------------------------------------------------------------
Count(seq, x) == Cardinality({i \in DOMAIN seq : seq[i] = x})

CountCmd(cmds, c) == Cardinality({i \in DOMAIN cmds : cmds[i].cmd = c})

Ordered(seq, Rank(_)) ==
    \A i \in 1..(Len(seq) - 1) : Rank(seq[i]) <= Rank(seq[i + 1])

\* the step a printed line belongs to: 1 product owner, 2 worktree creation,
\* 3 engineer, 4 diff check, 5 commit, 6 report, 7 merge
OutRank(e) ==
    CASE e \in {"header", "worktree_mode"} -> 0
      [] e \in {"po_analysis", "po_error", "po_done"} -> 1
      [] e \in {"engineer_start", "worktree_ready", "unexpected"} -> 2
      [] e \in {"engineer_failed", "engineer_done"} -> 3
      [] e \in {"checking_changes", "no_changes"} -> 4
      [] e = "committed" -> 5
      [] e \in {"all_done", "report", "failure", "cleanup", "auto_merge",
                "next_action", "leftover"} -> 6
      [] e \in {"reviewing", "merged", "merge_failed"} -> 7
      [] OTHER -> 8

\* the step a git command belongs to
GitRank(c) ==
    CASE c.cmd = "branch --show-current" -> 0
      [] c.cmd = "worktree add" -> 2
      [] c.cmd = "diff --stat" -> 4
      [] c.cmd = "add" -> 5
      [] c.cmd = "commit" -> 6
      [] c.cmd \in {"diff", "checkout"} -> 7
      [] c.cmd = "merge" -> 8
      [] c.cmd = "branch -d" -> 9
      [] OTHER -> 10

Interrupted == \E i \in DOMAIN out : OutRank(out[i]) = 8

ChildAlive == child \in {"running", "put"}

\* C11: the steps of a run happen in the order product owner, worktree
\* creation, engineer, diff check, commit, merge: the lines printed and the
\* git commands run follow that order, the agent process lives only inside
\* its own step, `git worktree add` runs only after the product owner's
\* reply was handled, the engineer runs only in an existing worktree, the
\* diff check only after the engineer's reply, and checkout and merge only
\* after the commit step has ended
C11_StepsInFixedOrder ==
    /\ Ordered(SelectSeq(out, LAMBDA e : e # "sdk_running"), OutRank)
    /\ \A i \in DOMAIN out :
          out[i] = "sdk_running" => i > 1 /\ out[i - 1] \in {"po_analysis", "worktree_ready"}
    /\ Ordered(SelectSeq(gitLog, LAMBDA c : c.cmd # "worktree remove"), GitRank)
    /\ \A i \in DOMAIN gitLog :
          gitLog[i].cmd = "worktree remove" =>
             \/ i < Len(gitLog) /\ gitLog[i + 1].cmd = "worktree add"
             \/ i > 1 /\ gitLog[i - 1].cmd = "branch -d"
             \/ i = Len(gitLog) /\ pc = "create_worktree"
    /\ (ChildAlive => pc \in {"po_wait", "eng_wait"} \/ Interrupted)
    /\ (Issued(gitLog, "worktree add") =>
           /\ Count(out, "po_done") = 1
           /\ wf.engineer_instructions # None
           /\ ex.who # "po")
    /\ (ex.who = "engineer" =>
           /\ RcOf(gitLog, "worktree add") = 0
           /\ ex.cwd = task.worktree_path
           /\ (pc = "eng_wait" => ex.cwd \in git.dirs))
    /\ (Issued(gitLog, "diff --stat") =>
           Count(out, "engineer_done") = 1 /\ ~ChildAlive /\ ex.phase = "idle")
    /\ (Issued(gitLog, "checkout") \/ Issued(gitLog, "merge") =>
           wf.commit \in {"ok", "skipped"} /\ result.success)

\* a run that went through every step, the merge included
C11_Witness ==
    /\ pc = "done"
    /\ wf.commit = "ok"
    /\ wf.merge = "ok"
    /\ Issued(gitLog, "worktree add")
    /\ Count(out, "sdk_running") = 2

\* C12: nothing is retried: in one run the agent process is started at most
\* once for the product owner and at most once for the engineer, and `git
\* worktree add`, `git commit` and `git merge` each run at most once
C12_NothingIsRetried ==
    /\ Count(out, "sdk_running") <= 2
    /\ LET started == {i \in DOMAIN out : out[i] = "sdk_running"}
       IN  \A i, j \in started : i < j => \E k \in i..j : out[k] = "engineer_start"
    /\ (ex.who = "po" => Count(out, "sdk_running") = 1)
    /\ CountCmd(gitLog, "worktree add") <= 1
    /\ CountCmd(gitLog, "commit") <= 1
    /\ CountCmd(gitLog, "add") <= 1
    /\ CountCmd(gitLog, "merge") <= 1

\* a run over in which a step failed - the worktree creation, the engineer,
\* the commit or the merge - after having been tried once
C12_Witness ==
    /\ pc = "done"
    /\ \/ RcOf(gitLog, "worktree add") = 1
       \/ RcOf(gitLog, "commit") = 1
       \/ RcOf(gitLog, "merge") = 1
       \/ (task.status = "failed" /\ Count(out, "sdk_running") = 2)

\* the run ended in a failure after its worktree had been created
FailedAfterCreation ==
    /\ pc = "done"
    /\ Truthy(task.worktree_path)
    /\ \/ (result.returned /\ ~result.success)
       \/ wf.merge = "failed"
       \/ exitCode = 1

\* C13: a run that ends in a failure after the worktree was created has
\* printed the manual cleanup instructions for that worktree
C13_FailureAfterCreationPrintsCleanup ==
    FailedAfterCreation => Count(out, "cleanup") >= 1

\* C14: a command that ended with exit code 1 ended through typer.Exit(1),
\* after the panel of its handler: a KeyboardInterrupt during the workflow
\* ends with the interruption panel and no other exception leaves main
C14_InterruptHandlerExitsCleanly ==
    (pc = "done" /\ exitCode = 1) =>
        /\ out[Len(out)] \in {"interrupted", "unexpected"}
        /\ ~Interrupted

\* C16: with --no-worktree the command runs no `git worktree add`, creates
\* no feature branch, and the engineer works in the current directory
C16_NoWorktreeUsesCurrentDirectory ==
    opts.no_worktree =>
        /\ ~Issued(gitLog, "worktree add")
        /\ \A w \in git.worktrees : w.branch # task.branch_name
        /\ (ex.who = "engineer" => ex.cwd = None)

\* ------------------------------------------------------------------------
\* Properties of the hello-cli commands
\* ------------------------------------------------------------------------
\* the repository without its uncommitted changes
Committed(g) == [g EXCEPT !.chg = {}]

InitialRepos == {CleanRepo(Main, {}), CleanRepo(Dev, {}), LeftoverHello}

Printed(id) == \E i \in DOMAIN out : out[i] = Msg(id)

\* C15: without the SDK the claude command prints the missing-SDK message
\* and exits with code 1 before anything else: no task id is drawn, no git
\* command runs, the repository is as it was, nothing else is printed
C15_MissingSdkExitsFirst ==
    (opts.cmd = "claude" /\ ~opts.sdk) =>
        /\ pc \in {"claude", "done"}
        /\ wf = NoWf
        /\ gitLog = <<>>
        /\ lastCall = NoCall
        /\ git \in InitialRepos
        /\ (pc = "done" => out = <<Msg("missing_sdk")>> /\ exitCode = 1)

C15_Witness == opts.cmd = "claude" /\ ~opts.sdk /\ pc = "done" /\ exitCode = 1

\* C17: with --no-worktree the claude command runs no git command on any
\* path: no worktree, no branch, no diff, add or commit, and afterwards no
\* report, no merge question and no merge
C17_NoWorktreeLeavesGitAlone ==
    (opts.cmd = "claude" /\ opts.no_worktree) =>
        /\ gitLog = <<>>
        /\ lastCall = NoCall
        /\ Committed(git) \in InitialRepos
        /\ (pc \notin {"claude", "hello"} /\ opts.sdk => wf.worktree_path = None
                                                          /\ wf.branch_name = None)
        /\ \A id \in {"report", "next_action", "auto_merge", "merged", "merge_failed",
                       "leftover", "interrupted", "checking_changes"} : ~Printed(id)
        /\ (pc = "done" /\ opts.sdk => exitCode = 0)

\* with --no-worktree the agent changed files and then raised
C17_Witness ==
    /\ opts.cmd = "claude"
    /\ opts.no_worktree
    /\ pc = "done"
    /\ Printed("error")
    /\ git.chg # {}

\* the greeting the simple style is to print
ExpectedGreeting(word) ==
    LET target == IF opts.name = None \/ opts.name = <<>> THEN <<"World">>
                  ELSE opts.name
        message == <<word>> \o target \o <<"!">>
    IN  IF opts.uppercase THEN Upper(message) ELSE message

\* C18: in the simple style hello exits with code 0 having printed
\* "Hello <name>!" ("Hello World!" without a name; upper-cased iff
\* --uppercase) exactly count times, whatever the name
C18_HelloPrintsGreetingCountTimes ==
    (opts.cmd = "hello" /\ opts.style = "simple" /\ pc = "done") =>
        /\ exitCode = 0
        /\ out = [i \in 1..opts.count |-> Line(ExpectedGreeting("Hello "))]

\* C19: `hello N` exits with code 0 and its output contains "Hey N!"
\* ("Hey World!" without a name)
C19_HelloSaysHey ==
    (opts.cmd = "hello" /\ opts.style = "simple" /\ opts.count = 1 /\ ~opts.uppercase
     /\ pc = "done") =>
        /\ exitCode = 0
        /\ \E i \in DOMAIN out :
              out[i].kind = "line" /\ Contains(ExpectedGreeting("Hey "), out[i].text)

\* ------------------------------------------------------------------------
\* Properties of the session files
\* ------------------------------------------------------------------------
Saved == lastCall'.op = "save_session_state" /\ ~lastCall'.raised

TuplesPut == Len(queue) + (IF ex.got # NoTuple THEN 1 ELSE 0)

\* C21: once run_claude_in_separate_process has come to its end, whichever way
\* the CLI ended, it has put exactly one tuple on the queue, and the status of
\* every tuple is "success" or "error".
C21_ExactlyOneTuplePerRun ==
    /\ child \in {"put", "exited"} => TuplesPut = 1
    /\ \A i \in 1..Len(queue) : queue[i].status \in {"success", "error"}
    /\ ex.got # NoTuple => ex.got.status \in {"success", "error"}

\* C22: when execute_task yields, the child process it started is not running
\* any more: after a tuple was read from the queue the child has ended and was
\* joined, after queue.Empty it was terminated and joined.
C22_ChildGoneWhenYielding ==
    ex.phase = "yielded" =>
        /\ child \notin {"running", "put"}
        /\ ex.got # NoTuple => child = "exited"
        /\ ex.timed_out => child \in {"terminated", "exited"}

\* execute_task has yielded the text of a tuple its child had put
C22_Witness ==
    /\ ex.phase = "yielded"
    /\ ex.got # NoTuple
    /\ ex.yields # <<>>
    /\ child = "exited"

PromptPassed == lastCall.op = "execute_task"

Surrogates(s) == Len(s) - Len(SelectSeq(s, Encodable))

\* C23 as claimed: a prompt of at most 2000 characters is handed to the child
\* unchanged, a longer one as its first 2000 characters followed by "...", and
\* what is handed over is never longer than 2003 characters.
C23_PromptCutAtBudget ==
    PromptPassed =>
        /\ Len(lastCall.arg) <= PromptBudget => lastCall.ret = lastCall.arg
        /\ Len(lastCall.arg) > PromptBudget =>
               lastCall.ret = SubSeq(lastCall.arg, 1, PromptBudget) \o Ellipsis
        /\ Len(lastCall.ret) <= PromptBudget + 3

\* C23 amended: what is handed to the child is never longer than 2003
\* characters and holds no character without a UTF-8 encoding; it is the
\* prompt (of at most 2000 characters) or the prompt's first 2000 characters
\* followed by "..." (longer prompt), less the characters of it that have no
\* UTF-8 encoding, and exactly that text when there are none.
C23_PromptCutAtBudgetThenEncoded ==
    PromptPassed =>
        LET p == lastCall.arg
            cut == IF Len(p) <= PromptBudget THEN p
                   ELSE SubSeq(p, 1, PromptBudget) \o Ellipsis
        IN  /\ Len(lastCall.ret) <= PromptBudget + 3
            /\ \A i \in 1..Len(lastCall.ret) : lastCall.ret[i] # Surrogate
            /\ Len(lastCall.ret) = Len(cut) - Surrogates(cut)
            /\ Surrogates(cut) = 0 => lastCall.ret = cut
            /\ \A i \in 1..Len(lastCall.ret) :
                  i <= Len(cut) - Surrogates(cut) /\
                  (Surrogates(SubSeq(cut, 1, i)) = 0 => lastCall.ret[i] = cut[i])

\* a prompt of more than 2000 characters was cut
C23_Witness ==
    /\ PromptPassed
    /\ Len(lastCall.arg) > PromptBudget
    /\ Len(lastCall.ret) = PromptBudget + 3
    /\ SubSeq(lastCall.ret, PromptBudget + 1, PromptBudget + 3) = Ellipsis

\* the worktree of the task holds a change the engineer left
WorktreeChanged == \E c \in git.chg : c[1] = task.worktree_path

\* C24: the workflow commits exactly when the engineer left changes in the
\* worktree, whether modified, untracked or staged: having looked for changes
\* it has either called commit_changes, once, or it found the worktree
\* unchanged, attempted no commit and returned the no-change success.
C24_CommitsExactlyWhenChanged ==
    pc = "report" /\ wf.commit # "none" =>
        /\ wf.commit = "skipped" =>
               /\ ~WorktreeChanged
               /\ ~Issued(gitLog, "add") /\ ~Issued(gitLog, "commit")
               /\ result.success /\ result.message = <<"no changes">>
        /\ wf.commit \in {"ok", "failed"} =>
               /\ lastCall.op = "commit_changes"
               /\ CountCmd(gitLog, "add") = 1

\* the moves of a task's status the claim allows; "none" is the time before
\* the task is created
StatusMoves ==
    {<<"none", "pending">>, <<"pending", "in_progress">>,
     <<"in_progress", "completed">>, <<"in_progress", "failed">>,
     <<"completed", "merged">>}

\* C25: the status of the task only moves PENDING -> IN_PROGRESS ->
\* COMPLETED or FAILED, and COMPLETED -> MERGED; a FAILED task never changes
\* status again, and a result created with success=True carries a task whose
\* status is COMPLETED.
C25_StatusOnlyMovesForward ==
    [][ /\ task'.status # task.status => <<task.status, task'.status>> \in StatusMoves
        /\ result' # result /\ result'.success /\ result'.has_task =>
               task'.status = "completed"
      ]_vars

\* what the engineer is told when the product owner gave no usable reply
Fallbacks(user_prompt) == {FixedFallback, GenericFallback \o user_prompt}

\* C26: when the call of the product owner did not succeed (error of the CLI,
\* timeout, process error, no response), the instructions the workflow goes
\* on with are the fallback text, never the text of the failure.
C26_FailureTextNeverForwarded ==
    [][ pc = "po_wait" /\ pc' = "create_task" /\ ~ex.message_received =>
            wf'.engineer_instructions \in Fallbacks(opts.prompt)
      ]_vars

WorktreeAddFailed ==
    \E i \in DOMAIN gitLog : gitLog[i].cmd = "worktree add" /\ gitLog[i].rc # 0

\* C28: when git worktree add exits non-zero, create_worktree raises and the
\* run stops there: the task is not IN_PROGRESS, the engineer is not invoked,
\* nothing is committed or merged, and the command exits with code 1.
C28_FailedWorktreeAddStopsTheRun ==
    WorktreeAddFailed =>
        /\ lastCall.op = "create_worktree" /\ lastCall.raised
        /\ task.status = "pending" /\ task.worktree_path = None
        /\ ex.who # "engineer" /\ Count(out, "sdk_running") = 1
        /\ wf.engineer_result = <<>> /\ wf.commit = "none" /\ wf.merge = "none"
        /\ \A c \in {"add", "commit", "checkout", "merge", "branch -d"} :
              ~Issued(gitLog, c)
        /\ git.merges = {} /\ git.ahead = {}
        /\ pc = "done" /\ exitCode = 1

\* git worktree add failed for a fault outside the repository's state
C28_Witness ==
    /\ WorktreeAddFailed
    /\ lastCall.op = "create_worktree" /\ lastCall.faulted
    /\ pc = "done"

\* C29: a failed merge changes nothing about the task: when merge_branch
\* returned false, review_and_merge returns success=False, remove_worktree is
\* not called and the task is as it was; the status becomes MERGED only in a
\* review_and_merge whose merge exited with zero and which went on to the
\* removal of the worktree.
C29_FailedMergeLeavesTask ==
    [][ /\ wf'.merge = "failed" /\ wf.merge # "failed" =>
               /\ task' = task
               /\ lastCall'.op = "review_and_merge" /\ lastCall'.ret = FALSE
               /\ RcOf(lastCall'.cmds, "checkout") # 0 \/ RcOf(lastCall'.cmds, "merge") # 0
               /\ ~Issued(lastCall'.cmds, "worktree remove")
               /\ git'.worktrees = git.worktrees
        /\ task'.status = "merged" /\ task.status # "merged" =>
               /\ task.status = "completed"
               /\ lastCall'.op = "review_and_merge" /\ lastCall'.ret = TRUE
               /\ RcOf(lastCall'.cmds, "checkout") = 0
               /\ RcOf(lastCall'.cmds, "merge") = 0
               /\ Issued(lastCall'.cmds, "worktree remove")
               /\ wf'.merge = "ok"
      ]_vars

\* a merge failed on a completed task, and the worktree is still there
C29_Witness ==
    /\ wf.merge = "failed"
    /\ task.status = "completed"
    /\ Registered(git, task.worktree_path)
    /\ Issued(gitLog, "merge")
    /\ RcOf(gitLog, "merge") # 0

\* C30: every call of execute_task that has started its child comes to its
\* yield, also when the CLI never exits and nothing is ever put on the queue:
\* the queue read ends after its timeout and every process.join() returns.
C30_ExecuteTaskEventuallyYields ==
    (ex.phase \in {"get", "join"}) ~> (ex.phase = "yielded")

\* execute_task has yielded although the CLI never came to an end
C30_Witness ==
    /\ ex.phase = "yielded"
    /\ ex.timed_out
    /\ ex.cli = "none"
    /\ child = "terminated"
    /\ ex.final_result = QueueTimeoutText

====
